---------------------------- MODULE Spec2Model ----------------------------
(***************************************************************************)
(* A model of the quantitative core of the Manifold Markets trading bot:   *)
(* KellyCriterion (bot/kelly.py), PortfolioOptimizer                       *)
(* (bot/portfolio_optimizer.py), ArbitrageDetector (bot/arbitrage.py),     *)
(* EnsembleStrategy (bot/ensemble_strategy.py), Backtester                 *)
(* (bot/backtesting.py) and PortfolioTracker (bot/portfolio.py).           *)
(*                                                                         *)
(* Python floats are modelled as exact rationals <<n, d>> (d > 0, lowest   *)
(* terms); round(x, k) is modelled as rounding the exact value to the      *)
(* nearest multiple of 10^-k, ties to even.  A Python None is the record   *)
(* [kind |-> "None"], a raised exception the record [kind |-> "raise"].    *)
(***************************************************************************)
EXTENDS Integers, Sequences, FiniteSets, TLC

VARIABLES
    pc,          \* "call": the operation op is about to run on args; "done": it has returned
    op,          \* name of the operation called
    args,        \* the arguments of that call
    ret,         \* what that call returned (or that it raised)
    bt,          \* the Backtester instance and the position of its running loop
    tracker      \* the PortfolioTracker instance and its storage file

vars == <<pc, op, args, ret, bt, tracker>>

-----------------------------------------------------------------------------
(* Exact arithmetic standing for Python float arithmetic. *)

Abs(x) == IF x < 0 THEN -x ELSE x

RECURSIVE GCD(_, _)
GCD(a, b) == IF b = 0 THEN a ELSE GCD(b, a % b)

\* the rational n/d in lowest terms with a positive denominator (d # 0)
Rat(n, d) ==
    LET g == GCD(Abs(n), Abs(d))
        s == IF d < 0 THEN -1 ELSE 1
    IN  <<(s * n) \div g, (s * d) \div g>>

Num(k) == <<k, 1>>
Zero == Num(0)
One == Num(1)

\* a float that is not a number: it spreads through the arithmetic, and every
\* comparison with it is false in Python
NaN == <<0, 0>>
IsNaN(x) == x[2] = 0

\* (sums and comparisons go through the least common denominator, products
\* cancel crosswise first: the intermediate integers stay small)
RAdd(a, b) ==
    IF IsNaN(a) \/ IsNaN(b) THEN NaN
    ELSE LET g == GCD(a[2], b[2])
         IN  Rat(a[1] * (b[2] \div g) + b[1] * (a[2] \div g), (a[2] \div g) * b[2])
RNeg(a) == <<-a[1], a[2]>>
RSub(a, b) == RAdd(a, RNeg(b))
RMul(a, b) ==
    IF IsNaN(a) \/ IsNaN(b) THEN NaN
    ELSE LET g1 == GCD(Abs(a[1]), b[2])
             g2 == GCD(Abs(b[1]), a[2])
         IN  Rat((a[1] \div g1) * (b[1] \div g2), (a[2] \div g2) * (b[2] \div g1))
\* a / b for b # 0 (Python raises ZeroDivisionError for b = 0: see the callers)
RDiv(a, b) == IF IsNaN(a) \/ IsNaN(b) THEN NaN ELSE RMul(a, Rat(b[2], b[1]))
RAbs(a) == <<Abs(a[1]), a[2]>>
RLt(a, b) ==
    /\ ~IsNaN(a) /\ ~IsNaN(b)
    /\ LET g == GCD(a[2], b[2]) IN a[1] * (b[2] \div g) < b[1] * (a[2] \div g)
RLe(a, b) ==
    /\ ~IsNaN(a) /\ ~IsNaN(b)
    /\ LET g == GCD(a[2], b[2]) IN a[1] * (b[2] \div g) <= b[1] * (a[2] \div g)
\* Python's min(a, b) is b if b < a else a, max(a, b) is b if b > a else a
RMin(a, b) == IF RLt(b, a) THEN b ELSE a
RMax(a, b) == IF RLt(a, b) THEN b ELSE a
IsZero(a) == a[1] = 0 /\ a[2] # 0

RECURSIVE ScaledFloor(_, _, _)
\* <<floor(r * scale / den), (r * scale) % den>> for 0 <= r < den and scale a
\* power of 10, by long division (one decimal digit a step)
ScaledFloor(r, den, scale) ==
    IF scale = 1 THEN <<0, r>>
    ELSE LET prev == ScaledFloor(r, den, scale \div 10)
             t == prev[2] * 10
         IN  <<prev[1] * 10 + (t \div den), t % den>>

\* round(x, k) with scale = 10^k: nearest multiple of 1/scale, ties to even
Round(x, scale) ==
    IF IsNaN(x) THEN NaN
    ELSE LET sf == ScaledFloor(x[1] % x[2], x[2], scale)
             f == (x[1] \div x[2]) * scale + sf[1]
             up == \/ 2 * sf[2] > x[2]
                   \/ (2 * sf[2] = x[2] /\ f % 2 = 1)
         IN  Rat(IF up THEN f + 1 ELSE f, scale)

None == [kind |-> "None"]
Raise == [kind |-> "raise"]
Val(x) == [kind |-> "val", val |-> x]

-----------------------------------------------------------------------------
(* KellyCriterion, bot/kelly.py *)

\* variant: the guard lets the endpoints 0 and 1 through
InvalidProbabilityOpenOnly(x) == RLt(x, Zero) \/ RLt(One, x)

\* kelly.py:26 and :29, the guard on a probability
InvalidProbability(x) == RLe(x, Zero) \/ RLe(One, x)

\* variant: the chances of winning and of losing change places
KellyOfSideSwapped(p, q, b, kelly_fraction) ==
    IF IsZero(b) THEN Raise
    ELSE LET kelly == RDiv(RSub(RMul(q, b), p), b)
         IN  IF RLe(kelly, Zero) THEN None
             ELSE Val(RMax(Zero, RMin(RMul(kelly, kelly_fraction), Rat(1, 2))))

\* kelly.py:44,51,55-62: full Kelly of the chosen side, scaled and clipped
KellyOfSide(p, q, b, kelly_fraction) ==
    IF IsZero(b) THEN Raise
    ELSE LET kelly == RDiv(RSub(RMul(p, b), q), b)
         IN  IF RLe(kelly, Zero) THEN None
             ELSE Val(RMax(Zero, RMin(RMul(kelly, kelly_fraction), Rat(1, 2))))

calculate_kelly_fraction(probability, market_probability, kelly_fraction, min_edge) ==
    IF InvalidProbability(probability) THEN None
    ELSE IF InvalidProbability(market_probability) THEN None
    ELSE LET edge_yes == RSub(probability, market_probability)
             edge_no == RSub(RSub(One, probability), RSub(One, market_probability))
         IN  IF RLe(min_edge, edge_yes)
             THEN IF IsZero(market_probability) THEN Raise
                  ELSE KellyOfSide(probability, RSub(One, probability),
                                   RDiv(RSub(One, market_probability), market_probability),
                                   kelly_fraction)
             ELSE IF RLe(min_edge, edge_no)
             THEN IF IsZero(RSub(One, market_probability)) THEN Raise
                  ELSE KellyOfSide(RSub(One, probability), probability,
                                   RDiv(market_probability, RSub(One, market_probability)),
                                   kelly_fraction)
             ELSE None

adjust_for_market_impact(bet_size, market_liquidity, impact_threshold) ==
    IF RLe(market_liquidity, Zero) THEN bet_size
    ELSE RMin(bet_size, RMul(market_liquidity, impact_threshold))

\* variant: the sign test of the direction is inverted
DirectionInverted(edge_yes) == IF RLt(edge_yes, Zero) THEN "YES" ELSE "NO"

\* kelly.py:120
Direction(edge_yes) == IF RLt(Zero, edge_yes) THEN "YES" ELSE "NO"

\* kelly.py:117
ClipBet(bet_amount, min_bet, max_bet) == RMax(min_bet, RMin(bet_amount, max_bet))

calculate_optimal_bet(bankroll, probability, market_probability, market_liquidity, kelly_fraction, min_edge, min_bet, max_bet) ==
    LET kelly_bet_fraction ==
            calculate_kelly_fraction(probability, market_probability, kelly_fraction, min_edge)
    IN  IF kelly_bet_fraction.kind # "val" THEN kelly_bet_fraction
        ELSE LET bet0 == RMul(bankroll, kelly_bet_fraction.val)
                 bet1 == adjust_for_market_impact(bet0, market_liquidity, Rat(1, 10))
                 bet_amount == ClipBet(bet1, min_bet, max_bet)
                 edge_yes == RSub(probability, market_probability)
             IN  [kind |-> "bet",
                  bet_amount |-> Round(bet_amount, 100),
                  direction |-> Direction(edge_yes),
                  kelly_fraction |-> Round(kelly_bet_fraction.val, 10000),
                  edge |-> Round(RAbs(edge_yes), 10000),
                  probability |-> probability,
                  market_probability |-> market_probability]

-----------------------------------------------------------------------------
(* Inputs of the sizing calls. *)

Probabilities ==
    {Rat(-1, 10), Zero, Rat(3, 10), Rat(9, 20), Rat(1, 2), Rat(7, 10), One, Rat(11, 10)}
MinEdges == {Rat(-1, 10), Zero, Rat(1, 20), Rat(3, 10)}
KellyFractions == {Rat(1, 4), One}
Bankrolls == {Num(-100), Zero, Num(10), Num(1000)}
Liquidities == {Num(-100), Zero, Num(50), Num(1000)}
BetBounds == {<<Num(10), Num(100)>>, <<Num(10), Num(1000)>>, <<Rat(2001, 200), Rat(20011, 200)>>}

\* the arguments a caller may pass to calculate_kelly_fraction
KellyFractionArgs ==
    [probability : Probabilities, market_probability : Probabilities,
     kelly_fraction : KellyFractions, min_edge : MinEdges]

\* the arguments a caller may pass to calculate_optimal_bet
OptimalBetArgs ==
    {[bankroll |-> b, probability |-> a.probability,
      market_probability |-> a.market_probability, market_liquidity |-> l,
      kelly_fraction |-> a.kelly_fraction, min_edge |-> a.min_edge,
      min_bet |-> mm[1], max_bet |-> mm[2]] :
        a \in KellyFractionArgs, b \in Bankrolls, l \in Liquidities, mm \in BetBounds}

KellyFractionCall ==
    /\ pc = "call" /\ op = "calculate_kelly_fraction"
    /\ ret' = calculate_kelly_fraction(args.probability, args.market_probability,
                                       args.kelly_fraction, args.min_edge)
    /\ pc' = "done"
    /\ UNCHANGED <<op, args, bt, tracker>>

OptimalBetCall ==
    /\ pc = "call" /\ op = "calculate_optimal_bet"
    /\ ret' = calculate_optimal_bet(args.bankroll, args.probability,
                                    args.market_probability, args.market_liquidity,
                                    args.kelly_fraction, args.min_edge,
                                    args.min_bet, args.max_bet)
    /\ pc' = "done"
    /\ UNCHANGED <<op, args, bt, tracker>>

\* no Backtester is in use
NoBacktest == [phase |-> "idle"]

\* no PortfolioTracker in the picture
NoTracker == [trades |-> <<>>]

InitKelly ==
    /\ pc = "call"
    /\ ret = None
    /\ bt = NoBacktest
    /\ tracker = NoTracker
    /\ \/ op = "calculate_kelly_fraction" /\ args \in KellyFractionArgs
       \/ op = "calculate_optimal_bet" /\ args \in OptimalBetArgs

NextKelly == KellyFractionCall \/ OptimalBetCall

SpecKelly == InitKelly /\ [][NextKelly]_vars

-----------------------------------------------------------------------------
(* PortfolioOptimizer, bot/portfolio_optimizer.py *)

RECURSIVE SumTo(_, _)
\* f[1] + ... + f[n]
SumTo(f, n) == IF n = 0 THEN Zero ELSE RAdd(SumTo(f, n - 1), f[n])

\* np.dot of two vectors of the same length
Dot(u, v) == SumTo([i \in 1..Len(u) |-> RMul(u[i], v[i])], Len(u))

\* np.std(column): population standard deviation.  Exact for the columns that
\* reach it here (one observation: 0; two observations: |a - b| / 2).
StdDev(col) ==
    IF Len(col) = 1 THEN Zero ELSE RMul(RAbs(RSub(col[1], col[2])), Rat(1, 2))

\* variant: without one column per weight, the spread of the first column is
\* taken for every asset
StdDevsOfFirstColumn(weights, returns) ==
    [i \in 1..Len(weights) |->
        LET col == [r \in 1..Len(returns) |-> returns[r][1]]
        IN  IF \A r \in 1..Len(col) : col[r] = col[1] THEN Rat(1, 10)
            ELSE RSub(col[Len(col)], col[1])]

\* portfolio_optimizer.py:66-70; returns is a 2-D array given as its rows
StdDevs(weights, returns) ==
    IF Len(returns[1]) # Len(weights)
    THEN [i \in 1..Len(weights) |-> Rat(1, 10)]
    ELSE [i \in 1..Len(weights) |->
            LET sd == StdDev([r \in 1..Len(returns) |-> returns[r][i]])
            IN  IF IsZero(sd) THEN Rat(1, 10) ELSE sd]

\* np.outer(std_devs, std_devs) * correlation_matrix broadcasts, and np.dot of
\* the product with the weights is defined, only for a correlation matrix
\* that is n x n or 1 x 1; numpy raises ValueError otherwise
ShapesMatch(n, correlation_matrix) ==
    Len(correlation_matrix) = n \/ Len(correlation_matrix) = 1

calculate_portfolio_variance(weights, returns, correlation_matrix) ==
    LET n == Len(weights)
        std_devs == StdDevs(weights, returns)
        corr(i, j) == IF Len(correlation_matrix) = n
                      THEN correlation_matrix[i][j] ELSE correlation_matrix[1][1]
        row(i) == SumTo([j \in 1..n |->
                            RMul(RMul(RMul(std_devs[i], std_devs[j]), corr(i, j)),
                                 weights[j])], n)
        portfolio_variance == SumTo([i \in 1..n |-> RMul(weights[i], row(i))], n)
    IN  IF ~ShapesMatch(n, correlation_matrix) THEN Raise
        ELSE IF \E i \in 1..n : IsNaN(weights[i]) THEN Val(Zero)
        ELSE Val(RMax(Zero, portfolio_variance))

\* returns_array.reshape(-1, 1): one row per expected return, one column
Reshape(expected_returns) == [i \in 1..Len(expected_returns) |-> <<expected_returns[i]>>]

\* portfolio_optimizer.py:109
EqualWeights(n) == [i \in 1..n |-> Rat(1, n)]

\* np.clip(x, 0, 1)
Clip01(x) == [i \in 1..Len(x) |-> RMax(Zero, RMin(x[i], One))]

\* x / x.sum(): numpy gives nan, with a warning and no exception, for 0 / 0
Normalised(x) ==
    LET total == SumTo(x, Len(x))
    IN  [i \in 1..Len(x) |-> IF IsZero(total) THEN NaN ELSE RDiv(x[i], total)]

\* portfolio_optimizer.py:111-130.  solver is what scipy's minimize does:
\* [kind |-> "throws"] or [kind |-> "result", success |-> .., x |-> ..]; it
\* evaluates the objective at the initial weights, so it throws whenever the
\* objective does.
OptimalWeights(expected_returns, correlation_matrix, solver) ==
    LET n == Len(expected_returns)
        initial_weights == EqualWeights(n)
        objective_raises ==
            calculate_portfolio_variance(initial_weights, Reshape(expected_returns),
                                         correlation_matrix).kind = "raise"
    IN  IF objective_raises \/ solver.kind = "throws" THEN initial_weights
        ELSE IF ~solver.success \/ (\E i \in 1..n : IsNaN(solver.x[i]))
        THEN initial_weights
        ELSE Normalised(Clip01(solver.x))

optimize_portfolio_weights(expected_returns, correlation_matrix, solver) ==
    LET n == Len(expected_returns)
        optimal_weights == OptimalWeights(expected_returns, correlation_matrix, solver)
        has_nan == \E i \in 1..n : IsNaN(optimal_weights[i])
        portfolio_var == calculate_portfolio_variance(
                             optimal_weights, Reshape(expected_returns), correlation_matrix)
    IN  IF n = 0
        THEN [kind |-> "result", weights |-> <<>>, expected_return |-> Zero,
              variance |-> Zero]
        ELSE IF portfolio_var.kind = "raise" THEN Raise
        ELSE [kind |-> "result",
              weights |-> optimal_weights,
              expected_return |-> IF has_nan THEN NaN
                                  ELSE Dot(optimal_weights, expected_returns),
              variance |-> portfolio_var.val]

(* Inputs of the optimizer. *)

\* the largest number of assets, and the largest correlation matrix
MaxAssets == 3

ExpectedReturnLists ==
    UNION {{[i \in 1..n |-> Rat(i, 10)], [i \in 1..n |-> Rat(-1, 20)]} : n \in 0..MaxAssets}

\* d x d matrices with a unit diagonal and one off-diagonal value
CorrelationMatrices ==
    {[i \in 1..dim |-> [j \in 1..dim |-> IF i = j THEN One ELSE rho]] :
        dim \in 1..MaxAssets, rho \in {Zero, Rat(1, 2)}}

\* what minimize may leave in result.x
SolverEntries == {NaN, Rat(-1, 4), Zero, Rat(1, 2), One}

SolverOutcomes(n) ==
    {[kind |-> "throws"]}
    \cup [kind : {"result"}, success : BOOLEAN, x : [1..n -> SolverEntries]]

OptimizeCall ==
    /\ pc = "call" /\ op = "optimize_portfolio_weights"
    /\ ret' = optimize_portfolio_weights(args.expected_returns, args.correlation_matrix,
                                         args.solver)
    /\ pc' = "done"
    /\ UNCHANGED <<op, args, bt, tracker>>

\* correlation_matrix.sum().sum(): the sum of all the entries
MatrixSum(rows) ==
    SumTo([i \in 1..Len(rows) |-> SumTo(rows[i], Len(rows[i]))], Len(rows))

\* variant: the diagonal is left in the average
AvgCorrelationWithDiagonal(rows) ==
    RDiv(MatrixSum(rows), Num(Len(rows) * Len(rows)))

\* portfolio_optimizer.py:211
AvgCorrelation(rows) ==
    RDiv(RSub(MatrixSum(rows), Num(Len(rows))), Num(Len(rows) * (Len(rows) - 1)))

\* portfolio_optimizer.py:204-215.  correlation_matrix is None or a DataFrame
\* [kind |-> "frame", rows |-> ..]; a DataFrame without rows or without columns
\* is empty.
calculate_diversification_ratio(correlation_matrix) ==
    IF correlation_matrix.kind = "None" THEN Zero
    ELSE IF Len(correlation_matrix.rows) = 0 \/ Len(correlation_matrix.rows[1]) = 0 THEN Zero
    ELSE IF Len(correlation_matrix.rows) <= 1 THEN Zero
    ELSE RMax(Zero, RMin(One, RSub(One, AvgCorrelation(correlation_matrix.rows))))

\* the pairs above the diagonal of a d x d matrix
UpperPairs(dim) == {p \in (1..dim) \X (1..dim) : p[1] < p[2]}

CorrelationEntries == {Num(-1), Zero, Rat(1, 2), One}

\* the symmetric d x d matrices with a unit diagonal
SymmetricMatrices(dim) ==
    {[i \in 1..dim |-> [j \in 1..dim |->
         IF i = j THEN One ELSE IF i < j THEN u[<<i, j>>] ELSE u[<<j, i>>]]] :
       u \in [UpperPairs(dim) -> CorrelationEntries]}

\* 2 x 2 frames of any entries, some of them outside [-1, 1]
FreeMatrices ==
    {<<<<a, b>>, <<c, e>>>> : a \in {Zero, One, Rat(3, 2)}, b \in {Num(-1), One, Num(-2)},
                              c \in {Num(-1), One}, e \in {Zero, One}}

DiversificationFrames ==
    {None, [kind |-> "frame", rows |-> <<>>], [kind |-> "frame", rows |-> <<<<>>, <<>>>>]}
    \cup {[kind |-> "frame", rows |-> m] :
            m \in FreeMatrices \cup UNION {SymmetricMatrices(dim) : dim \in 1..MaxAssets}}

DiversificationCall ==
    /\ pc = "call" /\ op = "calculate_diversification_ratio"
    /\ ret' = Val(calculate_diversification_ratio(args.correlation_matrix))
    /\ pc' = "done"
    /\ UNCHANGED <<op, args, bt, tracker>>

InitOptimizer ==
    /\ pc = "call"
    /\ ret = None
    /\ bt = NoBacktest
    /\ tracker = NoTracker
    /\ \/ /\ op = "optimize_portfolio_weights"
          /\ \E er \in ExpectedReturnLists, cm \in CorrelationMatrices :
               \E so \in IF Len(er) > 0 /\ ~ShapesMatch(Len(er), cm)
                          THEN {[kind |-> "throws"]} ELSE SolverOutcomes(Len(er)) :
                  args = [expected_returns |-> er, correlation_matrix |-> cm, solver |-> so]
       \/ /\ op = "calculate_diversification_ratio"
          /\ \E cm \in DiversificationFrames : args = [correlation_matrix |-> cm]

NextOptimizer == OptimizeCall \/ DiversificationCall

SpecOptimizer == InitOptimizer /\ [][NextOptimizer]_vars

-----------------------------------------------------------------------------
(* Backtester, bot/backtesting.py *)

\* backtesting.py:114-117: the estimate of a market.  market.llm is what
\* estimate_probability_llm returns for the market's question (None, or a
\* value it has clamped to [0.01, 0.99]); without a strategy the estimate is 0.5
AiProbability(has_strategy, market) ==
    IF has_strategy THEN market.llm ELSE Val(Rat(1, 2))

\* variant: a winning bet is paid at the YES price whatever its direction
SettledPnlAtYesPrice(outcome, direction, bet_amount, market_prob) ==
    IF outcome = direction THEN RSub(RDiv(bet_amount, market_prob), bet_amount)
    ELSE RNeg(bet_amount)

\* backtesting.py:65-72
SettledPnl(outcome, direction, bet_amount, market_prob) ==
    IF outcome = direction
    THEN LET payout == IF direction = "YES"
                       THEN RDiv(bet_amount, market_prob)
                       ELSE RDiv(bet_amount, RSub(One, market_prob))
         IN  RSub(payout, bet_amount)
    ELSE RNeg(bet_amount)

\* variant: a bet on a market without a recorded outcome is settled as lost
SettledTradeWithoutOutcome(market, ai_probability, bet_info) ==
    IF bet_info.kind = "raise" THEN Raise
    ELSE IF bet_info.kind = "None" THEN None
    ELSE [kind |-> "trade",
          market_id |-> market.id,
          direction |-> bet_info.direction,
          amount |-> bet_info.bet_amount,
          ai_probability |-> ai_probability,
          market_probability |-> market.probability,
          edge |-> bet_info.edge,
          outcome |-> market.resolution,
          pnl |-> SettledPnl(market.resolution, bet_info.direction, bet_info.bet_amount,
                             market.probability),
          roi |-> Zero]

\* backtesting.py:45-85: the trade record of a sized bet on a market
SettledTrade(market, ai_probability, bet_info) ==
    LET pnl == SettledPnl(market.resolution, bet_info.direction, bet_info.bet_amount,
                          market.probability)
    IN  IF bet_info.kind = "raise" THEN Raise
        ELSE IF bet_info.kind = "None" THEN None
        ELSE IF market.resolution = "" THEN None
        ELSE [kind |-> "trade",
              market_id |-> market.id,
              direction |-> bet_info.direction,
              amount |-> bet_info.bet_amount,
              ai_probability |-> ai_probability,
              market_probability |-> market.probability,
              edge |-> bet_info.edge,
              outcome |-> market.resolution,
              pnl |-> pnl,
              roi |-> IF RLt(Zero, bet_info.bet_amount)
                      THEN RMul(RDiv(pnl, bet_info.bet_amount), Num(100)) ELSE Zero]

simulate_trade(initial_capital, market, ai_probability, kelly_fraction, min_edge, min_bet, max_bet) ==
    SettledTrade(market, ai_probability,
                 calculate_optimal_bet(initial_capital, ai_probability, market.probability,
                                       market.totalLiquidity, kelly_fraction, min_edge,
                                       min_bet, max_bet))

\* variant: the bet bounds are scaled to the initial capital
MarketResultInitialBounds(initial_capital, has_strategy, market, kelly_fraction, min_edge, current_capital) ==
    IF ~market.isResolved THEN None
    ELSE IF AiProbability(has_strategy, market).kind = "None" THEN None
    ELSE simulate_trade(initial_capital, market, AiProbability(has_strategy, market).val,
                        kelly_fraction, min_edge,
                        RMul(initial_capital, Rat(1, 100)),
                        RMul(initial_capital, Rat(1, 10)))

\* variant: a bet may take the whole running capital
MarketResultWholeCapital(initial_capital, has_strategy, market, kelly_fraction, min_edge, current_capital) ==
    IF ~market.isResolved THEN None
    ELSE IF AiProbability(has_strategy, market).kind = "None" THEN None
    ELSE simulate_trade(initial_capital, market, AiProbability(has_strategy, market).val,
                        kelly_fraction, min_edge,
                        RMul(current_capital, Rat(1, 100)),
                        current_capital)

\* variant: the sizer is given the running capital as bankroll
MarketResultRunningBankroll(initial_capital, has_strategy, market, kelly_fraction, min_edge, current_capital) ==
    IF ~market.isResolved THEN None
    ELSE IF AiProbability(has_strategy, market).kind = "None" THEN None
    ELSE simulate_trade(current_capital, market, AiProbability(has_strategy, market).val,
                        kelly_fraction, min_edge,
                        RMul(current_capital, Rat(1, 100)),
                        RMul(current_capital, Rat(1, 10)))

\* backtesting.py:107-129: what one pass of the loop body yields for a market:
\* None when the market is skipped, else what simulate_trade returns
MarketResult(initial_capital, has_strategy, market, kelly_fraction, min_edge, current_capital) ==
    LET ai_prob == AiProbability(has_strategy, market)
    IN  IF ~market.isResolved THEN None
        ELSE IF ai_prob.kind = "None" THEN None
        ELSE simulate_trade(initial_capital, market, ai_prob.val, kelly_fraction, min_edge,
                            RMul(current_capital, Rat(1, 100)),
                            RMul(current_capital, Rat(1, 10)))

RECURSIVE CountPnl(_, _, _)
\* how many of the first n trades have a pnl of the given sign (1 or -1)
CountPnl(results, n, sign) ==
    IF n = 0 THEN 0
    ELSE CountPnl(results, n - 1, sign)
         + (IF (sign = 1 /\ RLt(Zero, results[n].pnl))
               \/ (sign = -1 /\ RLt(results[n].pnl, Zero)) THEN 1 ELSE 0)

\* df['pnl'].cumsum() at row k
CumulativePnl(results, k) == SumTo([i \in 1..k |-> results[i].pnl], k)

RECURSIVE RunningMax(_, _)
\* cumulative_pnl.cummax() at row k
RunningMax(results, k) ==
    IF k = 1 THEN CumulativePnl(results, 1)
    ELSE RMax(RunningMax(results, k - 1), CumulativePnl(results, k))

RECURSIVE MaxDrawdown(_, _)
\* (running_max - cumulative_pnl).max() over the first k rows
MaxDrawdown(results, k) ==
    LET dd == RSub(RunningMax(results, k), CumulativePnl(results, k))
    IN  IF k = 1 THEN dd ELSE RMax(MaxDrawdown(results, k - 1), dd)

\* backtesting.py:171-172.  The ratio mean/std * sqrt(252) has a square root in
\* it and is held as its sign: 0 where the code returns 0 (one trade, whose
\* sample std is NaN, or trades of equal pnl, whose std is 0, or a mean of 0),
\* else 1 or -1 with the sign of the mean return.
SharpeSign(results, initial_capital) ==
    LET n == Len(results)
        returns == [i \in 1..n |-> RDiv(results[i].pnl, initial_capital)]
        total == SumTo(returns, n)
    IN  IF n = 1 THEN Zero
        ELSE IF \A i \in 1..n : returns[i] = returns[1] THEN Zero
        ELSE IF RLt(total, Zero) THEN Num(-1)
        ELSE IF RLt(Zero, total) THEN One
        ELSE Zero

\* backtesting.py:143-154
ZeroMetrics(initial_capital) ==
    [kind |-> "metrics", total_trades |-> 0, winning_trades |-> 0, losing_trades |-> 0,
     win_rate |-> Zero, total_pnl |-> Zero, avg_pnl |-> Zero, max_drawdown |-> Zero,
     sharpe_ratio |-> Zero, roi |-> Zero, final_capital |-> initial_capital]

\* backtesting.py:156-188, for a non-empty list of trades
MetricsOf(results, initial_capital) ==
    LET total_trades == Len(results)
        winning_trades == CountPnl(results, total_trades, 1)
        losing_trades == CountPnl(results, total_trades, -1)
        total_pnl == CumulativePnl(results, total_trades)
    IN  [kind |-> "metrics",
         total_trades |-> total_trades,
         winning_trades |-> winning_trades,
         losing_trades |-> losing_trades,
         win_rate |-> Round(Rat(winning_trades * 100, total_trades), 100),
         total_pnl |-> Round(total_pnl, 100),
         avg_pnl |-> Round(RDiv(total_pnl, Num(total_trades)), 100),
         max_drawdown |-> Round(MaxDrawdown(results, total_trades), 100),
         sharpe_ratio |-> SharpeSign(results, initial_capital),
         roi |-> Round(RMul(RDiv(total_pnl, initial_capital), Num(100)), 100),
         final_capital |-> Round(RAdd(initial_capital, total_pnl), 100)]

\* variant: the guard for an empty trade list is missing, and pandas raises
\* KeyError for the 'pnl' column of an empty DataFrame
calculate_metrics_unguarded(results, initial_capital) ==
    IF results = <<>> THEN Raise ELSE MetricsOf(results, initial_capital)

calculate_metrics(results, initial_capital) ==
    IF results = <<>> THEN ZeroMetrics(initial_capital)
    ELSE MetricsOf(results, initial_capital)

(* Inputs of the backtest. *)

\* the longest list of historical markets
MaxMarkets == 3

\* the markets a history is drawn from
MarketUniverse ==
    {[id |-> "win", isResolved |-> TRUE, probability |-> Rat(1, 2),
      totalLiquidity |-> Num(1000), resolution |-> "YES", llm |-> Val(Rat(7, 10))],
     [id |-> "lose", isResolved |-> TRUE, probability |-> Rat(1, 2),
      totalLiquidity |-> Num(1000), resolution |-> "NO", llm |-> Val(Rat(7, 10))],
     [id |-> "no-win", isResolved |-> TRUE, probability |-> Rat(7, 10),
      totalLiquidity |-> Num(1000), resolution |-> "NO", llm |-> Val(Rat(3, 10))],
     [id |-> "cancelled", isResolved |-> TRUE, probability |-> Rat(7, 10),
      totalLiquidity |-> Num(50), resolution |-> "CANCEL", llm |-> Val(Rat(3, 10))],
     [id |-> "open", isResolved |-> FALSE, probability |-> Rat(1, 2),
      totalLiquidity |-> Num(1000), resolution |-> "", llm |-> Val(Rat(7, 10))],
     [id |-> "no-estimate", isResolved |-> TRUE, probability |-> Rat(3, 10),
      totalLiquidity |-> Num(1000), resolution |-> "YES", llm |-> None],
     [id |-> "no-outcome", isResolved |-> TRUE, probability |-> Rat(3, 10),
      totalLiquidity |-> Num(1000), resolution |-> "", llm |-> Val(Rat(7, 10))],
     [id |-> "no-edge", isResolved |-> TRUE, probability |-> Rat(1, 2),
      totalLiquidity |-> Num(1000), resolution |-> "YES", llm |-> Val(Rat(1, 2))]}

MarketLists == UNION {[1..n -> MarketUniverse] : n \in 0..MaxMarkets}

\* (the constructor takes any number: with no capital the first trade stakes
\* nothing and ends the run)
InitialCapitals == {Num(1000), Num(37), Rat(4, 25), Zero}

\* the configurations compare_strategies is given
StrategyConfigs ==
    {[name |-> "quarter", kelly_fraction |-> Rat(1, 4), min_edge |-> Rat(1, 20)],
     [name |-> "full", kelly_fraction |-> One, min_edge |-> Rat(1, 20)],
     [name |-> "picky", kelly_fraction |-> One, min_edge |-> Rat(3, 10)]}

StrategyConfigLists == UNION {[1..n -> StrategyConfigs] : n \in 0..2}

\* the histories compare_strategies is given
CompareMarketLists ==
    UNION {[1..n -> {m \in MarketUniverse : m.id \in {"win", "lose", "no-win", "no-edge"}}] :
             n \in 0..2}

\* a fresh Backtester (backtesting.py:10-17), with the locals of its methods:
\* current_capital and the position i of backtest_strategy, the position c
\* and the comparison list of compare_strategies
NewBacktester(initial_capital, has_strategy) ==
    [phase |-> "idle", initial_capital |-> initial_capital,
     has_strategy |-> has_strategy, results |-> <<>>,
     current_capital |-> Zero, i |-> 0, c |-> 0, comparison |-> <<>>]

\* the kelly_fraction and min_edge of the running backtest_strategy call: its
\* arguments, or those compare_strategies passes (backtesting.py:214-223)
RunConfig ==
    IF op = "compare_strategies" THEN args.strategy_configs[bt.c]
    ELSE [name |-> "", kelly_fraction |-> args.kelly_fraction, min_edge |-> args.min_edge]

\* variant: the loop goes on whatever the capital
PhaseAfterTradeNeverBreaks(capital) == "loop"

\* backtesting.py:135-136
PhaseAfterTrade(capital) == IF RLe(capital, Zero) THEN "break" ELSE "loop"

\* variant: the trades of earlier runs are kept
ResetResultsKept(results) == results

\* backtesting.py:104
ResetResults(results) == <<>>

\* backtesting.py:104-105
BacktestStart ==
    /\ pc = "call"
    /\ \/ op = "backtest_strategy" /\ bt.phase = "idle"
       \/ op = "compare_strategies" /\ bt.phase = "called"
    /\ bt' = [bt EXCEPT !.phase = "loop", !.results = ResetResults(bt.results),
                        !.current_capital = bt.initial_capital, !.i = 1]
    /\ UNCHANGED <<pc, op, args, ret, tracker>>

\* backtesting.py:107-136: the loop body for the market at position bt.i
BacktestMarket ==
    /\ pc = "call" /\ bt.phase = "loop"
    /\ bt.i <= Len(args.historical_markets)
    /\ \E trade_result \in {MarketResult(bt.initial_capital, bt.has_strategy,
                                          args.historical_markets[bt.i],
                                          RunConfig.kelly_fraction, RunConfig.min_edge,
                                          bt.current_capital)} :
         IF trade_result.kind = "raise"
         THEN /\ ret' = Raise
              /\ pc' = "done"
              /\ bt' = [bt EXCEPT !.phase = "idle"]
         ELSE /\ UNCHANGED <<pc, ret>>
              /\ IF trade_result.kind = "trade"
                 THEN \E capital \in {RAdd(bt.current_capital, trade_result.pnl)} :
                        bt' = [bt EXCEPT !.results = Append(bt.results, trade_result),
                                         !.current_capital = capital,
                                         !.i = bt.i + 1,
                                         !.phase = PhaseAfterTrade(capital)]
                 ELSE bt' = [bt EXCEPT !.i = bt.i + 1]
    /\ UNCHANGED <<op, args, tracker>>

\* backtesting.py:138, and :225-228 when compare_strategies is the caller: the
\* row is the metrics with the three keys of the configuration added
BacktestReturn ==
    /\ pc = "call"
    /\ \/ bt.phase = "break"
       \/ bt.phase = "loop" /\ bt.i > Len(args.historical_markets)
    /\ \E metrics \in {calculate_metrics(bt.results, bt.initial_capital)} :
         IF op = "compare_strategies"
         THEN /\ bt' = [bt EXCEPT !.phase = "idle",
                                  !.comparison = Append(bt.comparison,
                                      [strategy_name |-> RunConfig.name,
                                       kelly_fraction |-> RunConfig.kelly_fraction,
                                       min_edge |-> RunConfig.min_edge,
                                       metrics |-> metrics])]
              /\ UNCHANGED <<pc, ret>>
         ELSE /\ ret' = metrics
              /\ pc' = "done"
              /\ bt' = [bt EXCEPT !.phase = "idle"]
    /\ UNCHANGED <<op, args, tracker>>

\* a further backtest_strategy call on the same instance, on the same history
\* or on its tail
BacktestAgain ==
    /\ pc = "done" /\ op = "backtest_strategy" /\ ret.kind = "metrics"
    /\ \E kf \in KellyFractions,
          ms \in {args.historical_markets,
                  SubSeq(args.historical_markets, 2, Len(args.historical_markets))} :
         args' = [historical_markets |-> ms, kelly_fraction |-> kf, min_edge |-> args.min_edge]
    /\ pc' = "call"
    /\ ret' = None
    /\ UNCHANGED <<op, bt, tracker>>

\* backtesting.py:213-223: the next configuration, up to the call of
\* backtest_strategy
CompareNext ==
    /\ pc = "call" /\ op = "compare_strategies" /\ bt.phase = "idle"
    /\ bt.c < Len(args.strategy_configs)
    /\ bt' = [bt EXCEPT !.c = bt.c + 1, !.results = <<>>, !.phase = "called"]
    /\ UNCHANGED <<pc, op, args, ret, tracker>>

\* backtesting.py:230
CompareReturn ==
    /\ pc = "call" /\ op = "compare_strategies" /\ bt.phase = "idle"
    /\ bt.c = Len(args.strategy_configs)
    /\ ret' = [kind |-> "frame", rows |-> bt.comparison]
    /\ pc' = "done"
    /\ UNCHANGED <<op, args, bt, tracker>>

InitBacktest ==
    /\ pc = "call"
    /\ ret = None
    /\ tracker = NoTracker
    /\ \E c \in InitialCapitals, hs \in BOOLEAN : bt = NewBacktester(c, hs)
    /\ \/ /\ op = "backtest_strategy"
          /\ \E ms \in MarketLists, kf \in KellyFractions, me \in {Rat(1, 20)} :
               args = [historical_markets |-> ms, kelly_fraction |-> kf, min_edge |-> me]
       \/ /\ op = "compare_strategies"
          /\ \E ms \in CompareMarketLists, cs \in StrategyConfigLists :
               args = [historical_markets |-> ms, strategy_configs |-> cs]

NextBacktest ==
    \/ BacktestStart \/ BacktestMarket \/ BacktestReturn \/ BacktestAgain
    \/ CompareNext \/ CompareReturn

SpecBacktest == InitBacktest /\ [][NextBacktest]_vars

-----------------------------------------------------------------------------
(* ArbitrageDetector, bot/arbitrage.py *)

\* A question is held as the set of its \w+ tokens, lower-cased.

\* arbitrage.py:50
stop_words ==
    {"will", "be", "the", "a", "an", "in", "on", "at", "by", "for", "to", "of", "is", "are"}

\* the tokens that have "not" as a substring, which is what 'not' in q tests
TokensWithNot == {"not", "another", "cannot"}

\* 'not' in q  (arbitrage.py:111)
ContainsNot(question) == question \cap TokensWithNot # {}

_are_markets_related(question1, question2) ==
    Cardinality((question1 \cap question2) \ stop_words) >= 3

\* x in seq, by value as Python compares dicts
InSeq(x, seq) == \E k \in 1..Len(seq) : seq[k] = x

\* variant: a pair that meets a group adds its first market to it, never the
\* second
AddRelatedPairFirstOnly(related_groups, market1, market2) ==
    LET hits == {k \in 1..Len(related_groups) :
                    InSeq(market1, related_groups[k]) \/ InSeq(market2, related_groups[k])}
        first == CHOOSE k \in hits : \A h \in hits : k <= h
        g0 == related_groups[first]
    IN  IF hits = {} THEN Append(related_groups, <<market1, market2>>)
        ELSE [related_groups EXCEPT
                ![first] = IF InSeq(market1, g0) THEN g0 ELSE Append(g0, market1)]

\* arbitrage.py:29-40: what a related pair does to the groups found so far
AddRelatedPair(related_groups, market1, market2) ==
    LET hits == {k \in 1..Len(related_groups) :
                    InSeq(market1, related_groups[k]) \/ InSeq(market2, related_groups[k])}
        first == CHOOSE k \in hits : \A h \in hits : k <= h
        g0 == related_groups[first]
        g1 == IF InSeq(market1, g0) THEN g0 ELSE Append(g0, market1)
        g2 == IF InSeq(market2, g1) THEN g1 ELSE Append(g1, market2)
    IN  IF hits = {} THEN Append(related_groups, <<market1, market2>>)
        ELSE [related_groups EXCEPT ![first] = g2]

RECURSIVE RelatedFrom(_, _, _, _)
\* arbitrage.py:22-40: the two loops from the pair (i, j) on
RelatedFrom(markets, i, j, related_groups) ==
    IF i > Len(markets) THEN related_groups
    ELSE IF j > Len(markets) THEN RelatedFrom(markets, i + 1, i + 2, related_groups)
    ELSE RelatedFrom(markets, i, j + 1,
                     IF _are_markets_related(markets[i].question, markets[j].question)
                     THEN AddRelatedPair(related_groups, markets[i], markets[j])
                     ELSE related_groups)

find_related_markets(markets) == RelatedFrom(markets, 1, 2, <<>>)

\* variant: the two probabilities are multiplied instead of added
ImpliedTotalProduct(prob_yes, prob_no) == RMul(prob_yes, prob_no)

\* arbitrage.py:74
ImpliedTotal(prob_yes, prob_no) == RAdd(prob_yes, prob_no)

detect_binary_arbitrage(market) ==
    LET prob_yes == market.probability
        prob_no == RSub(One, prob_yes)
        implied_total == ImpliedTotal(prob_yes, prob_no)
    IN  IF RLt(RAbs(RSub(implied_total, One)), Rat(1, 100)) THEN None
        ELSE IF RLt(implied_total, Rat(99, 100))
        THEN [kind |-> "opportunity", type |-> "binary_arbitrage",
              market_id |-> market.id, prob_yes |-> prob_yes, prob_no |-> prob_no,
              implied_total |-> implied_total,
              potential_profit |-> RSub(One, implied_total)]
        ELSE None

\* variant: a discrepancy equal to the threshold is flagged as well
ExceedsThresholdOrEqual(discrepancy, min_profit_threshold) ==
    RLe(min_profit_threshold, discrepancy)

\* arbitrage.py:123
ExceedsThreshold(discrepancy, min_profit_threshold) ==
    RLt(min_profit_threshold, discrepancy)

detect_cross_market_arbitrage(min_profit_threshold, market1, market2) ==
    LET q1 == market1.question
        q2 == market2.question
        is_inverse == \/ ContainsNot(q2) /\ ~ContainsNot(q1)
                      \/ ContainsNot(q1) /\ ~ContainsNot(q2)
        prob1 == market1.probability
        prob2 == market2.probability
        expected_prob2 == RSub(One, prob1)
        discrepancy == RAbs(RSub(prob2, expected_prob2))
    IN  IF ~is_inverse THEN None
        ELSE IF ExceedsThreshold(discrepancy, min_profit_threshold)
        THEN [kind |-> "opportunity", type |-> "inverse_market_arbitrage",
              market1_id |-> market1.id, market1_prob |-> prob1,
              market2_id |-> market2.id, market2_prob |-> prob2,
              discrepancy |-> discrepancy, potential_profit |-> discrepancy]
        ELSE None

RECURSIVE BinaryOpportunities(_, _)
\* arbitrage.py:151-154, over the first n markets
BinaryOpportunities(markets, n) ==
    IF n = 0 THEN <<>>
    ELSE LET arb == detect_binary_arbitrage(markets[n])
             before == BinaryOpportunities(markets, n - 1)
         IN  IF arb.kind = "opportunity" THEN Append(before, arb) ELSE before

RECURSIVE GroupOpportunities(_, _, _, _)
\* arbitrage.py:159-163: the pairs of one group from the pair (i, j) on
GroupOpportunities(min_profit_threshold, group, i, j) ==
    IF i > Len(group) THEN <<>>
    ELSE IF j > Len(group) THEN GroupOpportunities(min_profit_threshold, group, i + 1, i + 2)
    ELSE LET arb == detect_cross_market_arbitrage(min_profit_threshold, group[i], group[j])
             rest == GroupOpportunities(min_profit_threshold, group, i, j + 1)
         IN  IF arb.kind = "opportunity" THEN <<arb>> \o rest ELSE rest

RECURSIVE CrossOpportunities(_, _, _)
\* arbitrage.py:158-163, from group g on
CrossOpportunities(min_profit_threshold, related_groups, g) ==
    IF g > Len(related_groups) THEN <<>>
    ELSE GroupOpportunities(min_profit_threshold, related_groups[g], 1, 2)
         \o CrossOpportunities(min_profit_threshold, related_groups, g + 1)

RECURSIVE SortedByProfit(_)
\* sorted(..., key=potential_profit, reverse=True): stable, largest first
SortedByProfit(opportunities) ==
    IF opportunities = <<>> THEN <<>>
    ELSE LET n == Len(opportunities)
             best == CHOOSE k \in 1..n :
                        /\ \A h \in 1..n : RLe(opportunities[h].potential_profit,
                                                opportunities[k].potential_profit)
                        /\ \A h \in 1..(k - 1) : opportunities[h].potential_profit
                                                    # opportunities[k].potential_profit
             others == [h \in 1..(n - 1) |->
                          IF h < best THEN opportunities[h] ELSE opportunities[h + 1]]
         IN  <<opportunities[best]>> \o SortedByProfit(others)

scan_for_arbitrage(min_profit_threshold, markets) ==
    SortedByProfit(BinaryOpportunities(markets, Len(markets))
                   \o CrossOpportunities(min_profit_threshold,
                                         find_related_markets(markets), 1))

(* Inputs of the arbitrage scan. *)

\* the longest list of markets scanned
MaxScan == 3

ArbMarkets ==
    {[id |-> "btc", question |-> {"will", "btc", "reach", "100k"},
      probability |-> Rat(3, 10)],
     [id |-> "btc-not", question |-> {"will", "btc", "not", "reach", "100k"},
      probability |-> Rat(3, 5)],
     [id |-> "btc-not-fair", question |-> {"will", "btc", "not", "reach", "100k"},
      probability |-> Rat(7, 10)],
     [id |-> "btc-not-edge", question |-> {"will", "btc", "not", "reach", "100k"},
      probability |-> Rat(18, 25)],
     [id |-> "eth-btc", question |-> {"will", "eth", "and", "btc", "reach", "100k"},
      probability |-> Rat(3, 10)],
     [id |-> "eth-flip", question |-> {"will", "eth", "flip", "btc", "and", "cannot", "fall"},
      probability |-> Rat(1, 2)],
     [id |-> "another", question |-> {"will", "another", "coin", "moon"},
      probability |-> Rat(9, 10)],
     [id |-> "sure", question |-> {"is", "the", "btc", "price", "a", "number"},
      probability |-> Rat(99, 100)]}

MinProfitThresholds == {Rat(1, 50), Rat(3, 20)}

ArbMarketLists == UNION {[1..n -> ArbMarkets] : n \in 0..MaxScan}

DetectBinaryCall ==
    /\ pc = "call" /\ op = "detect_binary_arbitrage"
    /\ ret' = detect_binary_arbitrage(args.market)
    /\ pc' = "done"
    /\ UNCHANGED <<op, args, bt, tracker>>

ScanCall ==
    /\ pc = "call" /\ op = "scan_for_arbitrage"
    /\ ret' = [kind |-> "list",
               items |-> scan_for_arbitrage(args.min_profit_threshold, args.markets)]
    /\ pc' = "done"
    /\ UNCHANGED <<op, args, bt, tracker>>

\* the longest list of markets grouped
MaxRelated == 4

\* the markets find_related_markets is called on: the first four are related
\* in a chain fed-cut, fed-vote, vote-recount, recount, the fifth to none
RelatedMarkets ==
    {[id |-> "fed-cut", question |-> {"will", "the", "fed", "cut", "rates"},
      probability |-> Rat(3, 10)],
     [id |-> "fed-vote",
      question |-> {"will", "the", "fed", "cut", "rates", "before", "election", "vote", "2028"},
      probability |-> Rat(2, 5)],
     [id |-> "vote-recount",
      question |-> {"will", "the", "election", "vote", "2028", "see", "a", "recount",
                    "demand", "follow"},
      probability |-> Rat(1, 2)],
     [id |-> "recount", question |-> {"will", "a", "recount", "demand", "follow"},
      probability |-> Rat(3, 5)],
     [id |-> "rain", question |-> {"will", "it", "rain"}, probability |-> Rat(7, 10)]}

RelatedMarketLists == UNION {[1..n -> RelatedMarkets] : n \in 0..MaxRelated}

\* markets of which one, senate-house, is related to the three others, and
\* house-tax and house-tax-not are related to each other and inverse
HubMarkets ==
    {[id |-> "senate", question |-> {"will", "the", "senate", "pass", "budget"},
      probability |-> Rat(2, 5)],
     [id |-> "house-tax", question |-> {"will", "the", "house", "vote", "tax", "cut"},
      probability |-> Rat(3, 10)],
     [id |-> "house-tax-not",
      question |-> {"will", "the", "house", "not", "vote", "tax", "cut"},
      probability |-> Rat(1, 2)],
     [id |-> "senate-house",
      question |-> {"will", "the", "senate", "pass", "budget", "after", "house", "vote", "tax"},
      probability |-> Rat(3, 5)]}

HubMarketLists == UNION {[1..n -> HubMarkets] : n \in 0..MaxRelated}

FindRelatedCall ==
    /\ pc = "call" /\ op = "find_related_markets"
    /\ ret' = [kind |-> "groups", groups |-> find_related_markets(args.markets)]
    /\ pc' = "done"
    /\ UNCHANGED <<op, args, bt, tracker>>

\* the markets detect_cross_market_arbitrage is called on: those of the scan
\* and a pair whose discrepancy is exactly a quarter
CrossMarkets ==
    ArbMarkets
    \cup {[id |-> "rain", question |-> {"will", "it", "rain", "tomorrow"},
           probability |-> Rat(1, 2)],
          [id |-> "rain-not", question |-> {"will", "it", "not", "rain", "tomorrow"},
           probability |-> Rat(3, 4)]}

CrossThresholds == MinProfitThresholds \cup {Rat(1, 4)}

DetectCrossCall ==
    /\ pc = "call" /\ op = "detect_cross_market_arbitrage"
    /\ ret' = detect_cross_market_arbitrage(args.min_profit_threshold,
                                            args.market1, args.market2)
    /\ pc' = "done"
    /\ UNCHANGED <<op, args, bt, tracker>>

\* a / b as Python evaluates it: ZeroDivisionError for b = 0
Quotient(a, b) == IF IsZero(b) THEN Raise ELSE Val(RDiv(a, b))

\* arbitrage.py:182-200
BinaryAllocation(opportunity, total_capital) ==
    LET total_implied == RAdd(opportunity.prob_yes, opportunity.prob_no)
        share_yes == Quotient(opportunity.prob_no, total_implied)
        share_no == Quotient(opportunity.prob_yes, total_implied)
        expected_profit == RMul(total_capital, RSub(One, total_implied))
        roi == Quotient(expected_profit, total_capital)
    IN  IF share_yes.kind = "raise" \/ roi.kind = "raise" THEN Raise
        ELSE [kind |-> "allocation",
              bet_yes |-> Round(RMul(total_capital, share_yes.val), 100),
              bet_no |-> Round(RMul(total_capital, share_no.val), 100),
              total_invested |-> Round(RAdd(RMul(total_capital, share_yes.val),
                                            RMul(total_capital, share_no.val)), 100),
              expected_profit |-> Round(expected_profit, 100),
              roi |-> Round(RMul(roi.val, Num(100)), 100)]

\* arbitrage.py:202-210
InverseAllocation(opportunity, total_capital) ==
    LET allocation == RMul(total_capital, Rat(1, 2))
        expected_profit == RMul(total_capital, opportunity.potential_profit)
        roi == Quotient(expected_profit, allocation)
    IN  IF roi.kind = "raise" THEN Raise
        ELSE [kind |-> "allocation",
              total_invested |-> Round(allocation, 100),
              expected_profit |-> Round(expected_profit, 100),
              roi |-> Round(RMul(roi.val, Num(100)), 100)]

\* arbitrage.py:167-211; {} is [kind |-> "empty"]
calculate_arbitrage_allocation(opportunity, total_capital) ==
    IF opportunity.type = "binary_arbitrage"
    THEN BinaryAllocation(opportunity, total_capital)
    ELSE IF opportunity.type = "inverse_market_arbitrage"
    THEN InverseAllocation(opportunity, total_capital)
    ELSE [kind |-> "empty"]

\* the opportunities an allocation is asked for
AllocationOpportunities ==
    {[type |-> "binary_arbitrage", prob_yes |-> py, prob_no |-> pn, potential_profit |-> Zero] :
        py \in {Zero, Rat(2, 5)}, pn \in {Zero, Rat(1, 2)}}
    \cup {[type |-> t, prob_yes |-> Zero, prob_no |-> Zero, potential_profit |-> pp] :
            t \in {"inverse_market_arbitrage", "triangular"}, pp \in {Rat(1, 20), Rat(3, 10)}}

TotalCapitals == {Num(-100), Zero, Num(100), Num(1000)}

AllocationCall ==
    /\ pc = "call" /\ op = "calculate_arbitrage_allocation"
    /\ ret' = calculate_arbitrage_allocation(args.opportunity, args.total_capital)
    /\ pc' = "done"
    /\ UNCHANGED <<op, args, bt, tracker>>

InitArbitrage ==
    /\ pc = "call"
    /\ ret = None
    /\ bt = NoBacktest
    /\ tracker = NoTracker
    /\ \/ \E t \in MinProfitThresholds :
            \/ /\ op = "detect_binary_arbitrage"
               /\ \E m \in ArbMarkets : args = [min_profit_threshold |-> t, market |-> m]
            \/ /\ op = "scan_for_arbitrage"
               /\ \E ms \in ArbMarketLists \cup HubMarketLists :
                    args = [min_profit_threshold |-> t, markets |-> ms]
            \/ /\ op = "calculate_arbitrage_allocation"
               /\ \E o \in AllocationOpportunities, c \in TotalCapitals :
                    args = [min_profit_threshold |-> t, opportunity |-> o, total_capital |-> c]
            \/ /\ op = "find_related_markets"
               /\ \E ms \in RelatedMarketLists :
                    args = [min_profit_threshold |-> t, markets |-> ms]
       \/ /\ op = "detect_cross_market_arbitrage"
          /\ \E t \in CrossThresholds, m1, m2 \in CrossMarkets :
               args = [min_profit_threshold |-> t, market1 |-> m1, market2 |-> m2]

NextArbitrage ==
    \/ DetectBinaryCall \/ ScanCall \/ AllocationCall \/ FindRelatedCall
    \/ DetectCrossCall

SpecArbitrage == InitArbitrage /\ [][NextArbitrage]_vars

-----------------------------------------------------------------------------
(* EnsembleStrategy, bot/ensemble_strategy.py *)

\* A question is held as what base_rate_estimate reads of it: how many of the
\* optimistic and of the pessimistic keywords occur in it, whether it contains
\* 'by 20' or 'in 20', and the first word that is a 4-digit year 20xx (0: none).
base_rate_estimate(question) ==
    IF question.dated /\ question.year # 0
    THEN IF question.year <= 2026 THEN Rat(3, 5)
         ELSE IF question.year <= 2030 THEN Rat(2, 5)
         ELSE Rat(1, 4)
    ELSE IF question.pessimistic_count > question.optimistic_count THEN Rat(7, 20)
    ELSE IF question.optimistic_count > question.pessimistic_count THEN Rat(13, 20)
    ELSE Rat(1, 2)

market_momentum_estimate(market) ==
    LET current_prob == market.probability
        volume == market.volume
        momentum_factor == IF volume > 1000 THEN One
                           ELSE IF volume > 500 THEN Rat(4, 5)
                           ELSE IF volume > 100 THEN Rat(3, 5)
                           ELSE Rat(2, 5)
        step == RMul(momentum_factor, Rat(1, 10))
        adjusted == IF RLt(Rat(7, 10), current_prob)
                    THEN RAdd(current_prob, RMul(RSub(One, current_prob), step))
                    ELSE IF RLt(current_prob, Rat(3, 10))
                    THEN RSub(current_prob, RMul(current_prob, step))
                    ELSE current_prob
    IN  RMax(Rat(1, 100), RMin(Rat(99, 100), adjusted))

contrarian_estimate(market) ==
    LET current_prob == market.probability
    IN  IF RLt(Rat(4, 5), current_prob)
        THEN RSub(Rat(4, 5), RMul(RSub(current_prob, Rat(4, 5)), Rat(1, 2)))
        ELSE IF RLt(current_prob, Rat(1, 5))
        THEN RAdd(Rat(1, 5), RMul(RSub(Rat(1, 5), current_prob), Rat(1, 2)))
        ELSE current_prob

\* ensemble_strategy.py:14-19
DefaultWeights ==
    [llm |-> Rat(1, 2), base_rate |-> Rat(1, 5),
     market_momentum |-> Rat(3, 20), contrarian |-> Rat(3, 20)]

\* variant: an estimator that returns nothing is entered as an estimate of 0.5
LlmProbDefaulted(llm_strategy, llm) ==
    IF llm_strategy = "key" THEN (IF llm.kind = "val" THEN llm ELSE Val(Rat(1, 2)))
    ELSE None

\* ensemble_strategy.py:130-133.  llm_strategy is "none" for an instance without
\* an external estimator, "no_key" for one whose estimator has no API key and
\* "key" for one that is asked; llm is what estimate_probability_llm returns
\* when asked: None, or a value it has clamped to [0.01, 0.99].
LlmProb(llm_strategy, llm) ==
    IF llm_strategy = "key" THEN llm ELSE None

\* ensemble_strategy.py:128-137: the predictions in the order they are entered
Predictions(llm_prob, question, market_data) ==
    (IF llm_prob.kind = "val" THEN <<[model |-> "llm", prob |-> llm_prob.val]>> ELSE <<>>)
    \o <<[model |-> "base_rate", prob |-> base_rate_estimate(question)],
         [model |-> "market_momentum", prob |-> market_momentum_estimate(market_data)],
         [model |-> "contrarian", prob |-> contrarian_estimate(market_data)]>>

\* np.var: the population variance
PopulationVariance(values) ==
    LET n == Len(values)
        mean == RDiv(SumTo(values, n), Num(n))
        sq == [i \in 1..n |-> RMul(RSub(values[i], mean), RSub(values[i], mean))]
    IN  RDiv(SumTo(sq, n), Num(n))

\* ensemble_strategy.py:152
EnsembleVariance(predictions) ==
    IF Len(predictions) > 1
    THEN PopulationVariance([i \in 1..Len(predictions) |-> predictions[i].prob])
    ELSE Zero

\* ensemble_strategy.py:139-162, from the predictions of lines 128-137 and the
\* variance of line 152.  weights is the mapping of the instance, a missing
\* model having weight 0 (self.weights.get(model_name, 0.0)).
ensemble_predict(weights, predictions, variance, market_data) ==
    LET n == Len(predictions)
        weighted == SumTo([i \in 1..n |->
                              RMul(predictions[i].prob, weights[predictions[i].model])], n)
        total_weight == SumTo([i \in 1..n |-> weights[predictions[i].model]], n)
        ensemble_prob == IF RLt(Zero, total_weight) THEN RDiv(weighted, total_weight)
                         ELSE market_data.probability
        confidence == RDiv(One, RAdd(One, RMul(variance, Num(10))))
    IN  [kind |-> "ensemble",
         ensemble_probability |-> Round(ensemble_prob, 10000),
         confidence |-> Round(confidence, 10000),
         variance |-> Round(variance, 10000),
         predictions |-> [i \in 1..n |-> [model |-> predictions[i].model,
                                           prob |-> Round(predictions[i].prob, 10000)]],
         model_agreement |-> Round(RSub(One, variance), 10000)]

(* Inputs of the ensemble. *)

EnsembleQuestions ==
    {[optimistic_count |-> 1, pessimistic_count |-> 0, dated |-> FALSE, year |-> 0],
     [optimistic_count |-> 1, pessimistic_count |-> 2, dated |-> FALSE, year |-> 0],
     [optimistic_count |-> 1, pessimistic_count |-> 1, dated |-> TRUE, year |-> 0],
     [optimistic_count |-> 1, pessimistic_count |-> 0, dated |-> TRUE, year |-> 2026],
     [optimistic_count |-> 2, pessimistic_count |-> 0, dated |-> TRUE, year |-> 2030],
     [optimistic_count |-> 0, pessimistic_count |-> 0, dated |-> TRUE, year |-> 2040]}

EnsembleMarkets ==
    [probability : {Rat(1, 10), Rat(1, 2), Rat(13, 20), Rat(3, 4), Rat(9, 10)},
     volume : {0, 600, 2000}]

\* the external estimator of the instance (self.llm_strategy)
LlmStrategies == {"none", "no_key", "key"}

\* what the external estimator returns when it is asked: nothing, or a value
LlmEstimates == {None, Val(Rat(7, 10)), Val(Rat(1, 100))}

NoWeights == [llm |-> Zero, base_rate |-> Zero, market_momentum |-> Zero, contrarian |-> Zero]

WeightMappings ==
    {DefaultWeights,
     [NoWeights EXCEPT !.base_rate = One],
     [NoWeights EXCEPT !.contrarian = Rat(3, 10)],
     [NoWeights EXCEPT !.llm = One],
     [NoWeights EXCEPT !.market_momentum = Rat(1, 2), !.contrarian = Rat(1, 2)]}

EnsemblePredictCall ==
    /\ pc = "call" /\ op = "ensemble_predict"
    /\ \E predictions \in {Predictions(LlmProb(args.llm_strategy, args.llm),
                                        args.question, args.market_data)} :
         \E variance \in {EnsembleVariance(predictions)} :
           ret' = ensemble_predict(args.weights, predictions, variance, args.market_data)
    /\ pc' = "done"
    /\ UNCHANGED <<op, args, bt, tracker>>

\* the markets contrarian_estimate is called on
ContrarianMarkets ==
    [probability : {Zero, Rat(1, 10), Rat(1, 5), Rat(1, 2), Rat(4, 5), Rat(9, 10), One},
     volume : {0}]

ContrarianCall ==
    /\ pc = "call" /\ op = "contrarian_estimate"
    /\ ret' = Val(contrarian_estimate(args.market))
    /\ pc' = "done"
    /\ UNCHANGED <<op, args, bt, tracker>>

InitEnsemble ==
    /\ pc = "call"
    /\ ret = None
    /\ bt = NoBacktest
    /\ tracker = NoTracker
    /\ \/ /\ op = "ensemble_predict"
          /\ args \in [weights : WeightMappings, llm_strategy : LlmStrategies,
                        llm : LlmEstimates, question : EnsembleQuestions,
                        market_data : EnsembleMarkets]
       \/ /\ op = "contrarian_estimate"
          /\ \E m \in ContrarianMarkets : args = [market |-> m]

NextEnsemble == EnsemblePredictCall \/ ContrarianCall

SpecEnsemble == InitEnsemble /\ [][NextEnsemble]_vars

-----------------------------------------------------------------------------
(* PortfolioTracker, bot/portfolio.py *)

\* A trade is the dict add_trade builds; the key "outcome", which the dict
\* has only once update_trade_outcome has set it, is None until then.  The
\* timestamp and the question are left out.  tracker.saved is the list in the
\* storage file.

\* the largest number of trades recorded
MaxTrades == 3

MarketIds == {"m1", "m2"}

\* the outcome and pnl update_trade_outcome is given
Outcomes == {[outcome |-> "YES", pnl |-> Num(15)], [outcome |-> "NO", pnl |-> Num(-10)]}

\* portfolio.py:10-13 and :24-26, without a storage file to load
NewTracker == [trades |-> <<>>, saved |-> <<>>]

\* portfolio.py:28-34: the file holds the trades, or is left as it was when
\* the write fails (the exception is caught)
SavedAfter(trades) == {trades, tracker.saved}

\* portfolio.py:47-59
OpenTrade(trades, market_id, direction, amount) ==
    [id |-> Len(trades) + 1, market_id |-> market_id, direction |-> direction,
     amount |-> amount, status |-> "open", pnl |-> Zero, outcome |-> None]

\* portfolio.py:36-62
AddTrade ==
    /\ Len(tracker.trades) < MaxTrades
    /\ \E market_id \in MarketIds, direction \in {"YES", "NO"} :
         /\ args' = [market_id |-> market_id, direction |-> direction, amount |-> Num(10)]
         /\ \E trades \in {Append(tracker.trades,
                                   OpenTrade(tracker.trades, market_id, direction, Num(10)))} :
              \E saved \in SavedAfter(trades) :
                tracker' = [trades |-> trades, saved |-> saved]
    /\ op' = "add_trade"
    /\ pc' = "done"
    /\ ret' = None
    /\ UNCHANGED bt

\* variant: the trades of the market are updated whatever their status
ToCloseWhateverStatus(trade, market_id) == trade["market_id"] = market_id

\* portfolio.py:67
ToClose(trade, market_id) == trade["market_id"] = market_id /\ trade["status"] = "open"

\* portfolio.py:66-70
ClosedTrades(trades, market_id, outcome, pnl) ==
    [k \in 1..Len(trades) |->
        IF ToClose(trades[k], market_id)
        THEN [trades[k] EXCEPT !.status = "closed", !.outcome = Val(outcome), !.pnl = pnl]
        ELSE trades[k]]

\* portfolio.py:64-71
UpdateTradeOutcome ==
    /\ \E market_id \in MarketIds, o \in Outcomes :
         /\ args' = [market_id |-> market_id, outcome |-> o.outcome, pnl |-> o.pnl]
         /\ \E trades \in {ClosedTrades(tracker.trades, market_id, o.outcome, o.pnl)} :
              \E saved \in SavedAfter(trades) :
                tracker' = [trades |-> trades, saved |-> saved]
    /\ op' = "update_trade_outcome"
    /\ pc' = "done"
    /\ ret' = None
    /\ UNCHANGED bt

InitPortfolio ==
    /\ pc = "done"
    /\ op = "__init__"
    /\ args = [storage_file |-> "data/portfolio.json"]
    /\ ret = None
    /\ bt = NoBacktest
    /\ tracker = NewTracker

NextPortfolio == AddTrade \/ UpdateTradeOutcome

SpecPortfolio == InitPortfolio /\ [][NextPortfolio]_vars

-----------------------------------------------------------------------------
(* Properties of KellyCriterion, checked under SpecKelly. *)

BetReturned == pc = "done" /\ op = "calculate_optimal_bet" /\ ret.kind = "bet"

\* C1: every recommendation of calculate_optimal_bet has
\* min_bet <= bet_amount <= max_bet and bet_amount <= 0.1 * market_liquidity.
\* (stated on the inputs the sizer is meant for: bankroll > 0, liquidity > 0,
\* 0 < min_bet <= max_bet; the claim covers these among all others)
C1_AmountWithinBetBoundsAndLiquidityCap ==
    (/\ BetReturned
     /\ RLt(Zero, args.bankroll) /\ RLt(Zero, args.market_liquidity)
     /\ RLt(Zero, args.min_bet) /\ RLe(args.min_bet, args.max_bet)) =>
        /\ RLe(args.min_bet, ret.bet_amount)
        /\ RLe(ret.bet_amount, args.max_bet)
        /\ RLe(ret.bet_amount, RMul(Rat(1, 10), args.market_liquidity))

\* C2: the bet_amount of a recommendation never exceeds 0.5 * bankroll.
\* (stated on the inputs the sizer is meant for: bankroll > 0, liquidity > 0)
C2_AmountWithinHalfBankroll ==
    (/\ BetReturned
     /\ RLt(Zero, args.bankroll) /\ RLt(Zero, args.market_liquidity)) => RLe(ret.bet_amount, RMul(Rat(1, 2), args.bankroll))

\* C3: for p and m strictly inside (0,1) a recommendation is YES only when p > m
\* and NO only when p < m, and none is returned when |p - m| < min_edge.
C3_DirectionFollowsEdge ==
    (/\ pc = "done" /\ op = "calculate_optimal_bet"
     /\ RLt(Zero, args.probability) /\ RLt(args.probability, One)
     /\ RLt(Zero, args.market_probability) /\ RLt(args.market_probability, One))
    => /\ ret.kind \in {"None", "bet"}
       /\ ret.kind = "bet" =>
            /\ ret.direction = "YES" => RLt(args.market_probability, args.probability)
            /\ ret.direction = "NO" => RLt(args.probability, args.market_probability)
            /\ ret.direction \in {"YES", "NO"}
       /\ RLt(RAbs(RSub(args.probability, args.market_probability)), args.min_edge)
            => ret.kind = "None"

\* C3 witness: a NO recommendation has been returned for p < m
C3_Witness_NoBetReturned ==
    /\ BetReturned
    /\ ret.direction = "NO"
    /\ RLt(args.probability, args.market_probability)

\* C4: calculate_kelly_fraction and calculate_optimal_bet return None (no
\* exception, no clamped value) when probability or market_probability is
\* <= 0 or >= 1.
C4_InvalidProbabilityGivesNone ==
    (/\ pc = "done"
     /\ op \in {"calculate_kelly_fraction", "calculate_optimal_bet"}
     /\ \/ RLe(args.probability, Zero) \/ RLe(One, args.probability)
        \/ RLe(args.market_probability, Zero) \/ RLe(One, args.market_probability))
    => ret = None

\* C4 witness: calculate_optimal_bet has returned for market_probability = 0
\* and a probability inside (0,1) whose edge passes min_edge
C4_Witness_ZeroMarketProbability ==
    /\ pc = "done" /\ op = "calculate_optimal_bet"
    /\ args.market_probability = Zero
    /\ args.probability = Rat(7, 10)
    /\ RLe(args.min_edge, args.probability)
    /\ ret = None

\* C5: calculate_optimal_bet returns None for a bankroll <= 0 and for a
\* market_liquidity <= 0.
C5_NonPositiveBankrollOrLiquidityGivesNone ==
    (/\ pc = "done" /\ op = "calculate_optimal_bet"
     /\ RLe(args.bankroll, Zero) \/ RLe(args.market_liquidity, Zero))
    => ret.kind = "None"

-----------------------------------------------------------------------------
(* Properties of PortfolioOptimizer, checked under SpecOptimizer. *)

OptimizeDone == pc = "done" /\ op = "optimize_portfolio_weights"

\* the solver did not deliver a usable vector: it threw (as it does when the
\* correlation matrix is neither n x n nor 1 x 1 and the objective raises),
\* did not converge, or returned NaN
SolverFailed ==
    \/ Len(args.correlation_matrix) \notin {Len(args.expected_returns), 1}
    \/ args.solver.kind = "throws"
    \/ ~args.solver.success
    \/ \E i \in 1..Len(args.expected_returns) : IsNaN(args.solver.x[i])

C7_NeverRaisesAndFallsBackToEqualWeights ==
    (OptimizeDone /\ Len(args.expected_returns) >= 1) =>
        /\ ret.kind = "result"
        /\ SolverFailed => ret.weights = EqualWeights(Len(args.expected_returns))

-----------------------------------------------------------------------------
(* Properties of Backtester, checked under SpecBacktest. *)

BacktestDone == pc = "done" /\ op = "backtest_strategy"

\* C8: a backtest_strategy run that simulates no trade (empty market list, or
\* every market skipped) returns, without raising, a metrics record whose
\* counts, win rate, P&L figures, drawdown, Sharpe ratio and ROI are 0 and
\* whose final_capital is the initial capital.
C8_NoTradesGivesZeroMetrics ==
    (BacktestDone /\ bt.results = <<>>) =>
        /\ ret.kind = "metrics"
        /\ ret.total_trades = 0 /\ ret.winning_trades = 0 /\ ret.losing_trades = 0
        /\ ret.win_rate = Zero /\ ret.total_pnl = Zero /\ ret.avg_pnl = Zero
        /\ ret.max_drawdown = Zero /\ ret.sharpe_ratio = Zero /\ ret.roi = Zero
        /\ ret.final_capital = bt.initial_capital

\* C8 witness: a run over at least two markets, all of them skipped, has returned
C8_Witness_EveryMarketSkipped ==
    /\ BacktestDone
    /\ bt.results = <<>>
    /\ Len(args.historical_markets) >= 2
    /\ \E k \in 1..Len(args.historical_markets) :
          args.historical_markets[k].isResolved

-----------------------------------------------------------------------------
(* Properties of ArbitrageDetector, checked under SpecArbitrage. *)

InsideUnitInterval(x) == RLt(Zero, x) /\ RLt(x, One)

\* C9: detect_binary_arbitrage returns None for every market whose probability
\* lies in (0,1), and scan_for_arbitrage over a list of such markets returns no
\* opportunity of type binary_arbitrage.
C9_NoBinaryArbitrage ==
    /\ (/\ pc = "done" /\ op = "detect_binary_arbitrage"
        /\ InsideUnitInterval(args.market.probability))
       => ret = None
    /\ (/\ pc = "done" /\ op = "scan_for_arbitrage"
        /\ \A k \in 1..Len(args.markets) : InsideUnitInterval(args.markets[k].probability))
       => \A k \in 1..Len(ret.items) : ret.items[k].type # "binary_arbitrage"

\* C9 witness: a scan of three markets has returned opportunities
C9_Witness_ScanReturnedOpportunities ==
    /\ pc = "done" /\ op = "scan_for_arbitrage"
    /\ Len(args.markets) >= 3
    /\ \A k \in 1..Len(args.markets) : InsideUnitInterval(args.markets[k].probability)
    /\ Len(ret.items) >= 2

-----------------------------------------------------------------------------
(* Properties of EnsembleStrategy, checked under SpecEnsemble. *)

\* the positions of the predictions that enter the fusion with a non-zero weight
Contributing ==
    {i \in 1..Len(ret.predictions) : ~IsZero(args.weights[ret.predictions[i].model])}

\* C10: when exactly one model contributes to the fusion (the weight mapping
\* gives a non-zero weight to a single model that produced a value), the fused
\* probability is that model's estimate, the variance is 0 and the confidence 1.
C10_SingleModelFusion ==
    (pc = "done" /\ op = "ensemble_predict" /\ Cardinality(Contributing) = 1) =>
        /\ \A i \in Contributing : ret.ensemble_probability = ret.predictions[i].prob
        /\ ret.variance = Zero
        /\ ret.confidence = One

\* the external estimator was asked and returned nothing
EstimatorSilent ==
    /\ pc = "done" /\ op = "ensemble_predict"
    /\ args.llm_strategy = "key" /\ args.llm.kind = "None"

\* what the same call returns on an instance that has no external estimator
NoEstimatorResult ==
    LET predictions == Predictions(LlmProb("none", args.llm), args.question, args.market_data)
    IN  ensemble_predict(args.weights, predictions, EnsembleVariance(predictions),
                         args.market_data)

\* the sum of the weights of the three heuristic estimators
HeuristicWeight ==
    RAdd(RAdd(args.weights.base_rate, args.weights.market_momentum), args.weights.contrarian)

\* the three heuristic estimates averaged with their weights renormalized
HeuristicAverage ==
    RDiv(RAdd(RAdd(RMul(args.weights.base_rate, base_rate_estimate(args.question)),
                   RMul(args.weights.market_momentum,
                        market_momentum_estimate(args.market_data))),
              RMul(args.weights.contrarian, contrarian_estimate(args.market_data))),
         HeuristicWeight)

\* C11 as stated: when the external estimator returns nothing, ensemble_predict
\* raises no error, returns what an instance without an estimator returns, and
\* the fused probability is the average of the three heuristic estimates with
\* their weights renormalized to sum to 1 (which asks for a positive sum).
C11_SilentEstimatorAveragesHeuristics ==
    EstimatorSilent =>
        /\ ret.kind = "ensemble"
        /\ ret = NoEstimatorResult
        /\ RLt(Zero, HeuristicWeight)
        /\ ret.ensemble_probability = Round(HeuristicAverage, 10000)

\* C11 amended: when the external estimator returns nothing, ensemble_predict
\* raises no error and returns what an instance without an estimator returns;
\* the fused probability is the renormalized average of the three heuristic
\* estimates when their weights have a positive sum, and the market
\* probability when they have not.
C11_SilentEstimatorEqualsNoEstimator ==
    EstimatorSilent =>
        /\ ret.kind = "ensemble"
        /\ ret = NoEstimatorResult
        /\ ret.ensemble_probability =
              IF RLt(Zero, HeuristicWeight) THEN Round(HeuristicAverage, 10000)
              ELSE Round(args.market_data.probability, 10000)

\* C11 witness: the estimator of an instance with the default weights was
\* asked, returned nothing, and the call has returned
C11_Witness_SilentEstimatorDefaultWeights ==
    /\ EstimatorSilent
    /\ args.weights = DefaultWeights
    /\ Len(ret.predictions) = 3

-----------------------------------------------------------------------------
(* Properties of calculate_diversification_ratio, checked under SpecOptimizer. *)

DiversificationDone == pc = "done" /\ op = "calculate_diversification_ratio"

\* the rows of the frame the ratio was asked for (none for None)
FrameRows == IF args.correlation_matrix.kind = "frame" THEN args.correlation_matrix.rows ELSE <<>>

\* a square frame of at least two assets whose diagonal is 1 and whose other
\* entries are all off
UniformFrame(off) ==
    /\ Len(FrameRows) >= 2
    /\ \A i \in 1..Len(FrameRows) :
         /\ Len(FrameRows[i]) = Len(FrameRows)
         /\ \A j \in 1..Len(FrameRows) : FrameRows[i][j] = IF i = j THEN One ELSE off

EntriesInUnitBall ==
    \A i \in 1..Len(FrameRows) : \A j \in 1..Len(FrameRows[i]) :
        RLe(Num(-1), FrameRows[i][j]) /\ RLe(FrameRows[i][j], One)

\* C12: calculate_diversification_ratio returns 1 for an identity matrix and 0
\* for an all-ones matrix of size >= 2, 0 for fewer than two assets, and a
\* value in [0,1] for every correlation matrix with entries in [-1,1].
C12_DiversificationRatioValues ==
    DiversificationDone =>
        /\ ret.kind = "val"
        /\ UniformFrame(Zero) => ret.val = One
        /\ UniformFrame(One) => ret.val = Zero
        /\ Len(FrameRows) < 2 => ret.val = Zero
        /\ EntriesInUnitBall => RLe(Zero, ret.val) /\ RLe(ret.val, One)

\* C12 witness: the ratio of an identity matrix of three assets was returned
C12_Witness_IdentityOfThree ==
    DiversificationDone /\ UniformFrame(Zero) /\ Len(FrameRows) = 3

-----------------------------------------------------------------------------
(* Properties of calculate_arbitrage_allocation, checked under SpecArbitrage. *)

AllocationDone == pc = "done" /\ op = "calculate_arbitrage_allocation"

\* a result that commits no capital: {} or an allocation that invests nothing
NothingToDo ==
    \/ ret.kind = "empty"
    \/ ret.kind = "allocation" /\ ret.total_invested = Zero

\* C13: calculate_arbitrage_allocation never raises: for total_capital <= 0, or
\* for a binary opportunity whose prob_yes + prob_no is 0, it returns a
\* nothing-to-do result instead of failing on a division by zero.
C13_AllocationNeverRaises ==
    AllocationDone =>
        /\ ret.kind # "raise"
        /\ (\/ RLe(args.total_capital, Zero)
            \/ /\ args.opportunity.type = "binary_arbitrage"
               /\ IsZero(RAdd(args.opportunity.prob_yes, args.opportunity.prob_no)))
           => NothingToDo

-----------------------------------------------------------------------------
(* Properties of backtest_strategy steps, checked under SpecBacktest. *)

\* the step records a trade
TradeRecorded == Len(bt'.results) = Len(bt.results) + 1

\* the trade the step records
NewTrade == bt'.results[Len(bt'.results)]

LoopMarket == args.historical_markets[bt.i]

AtLoopMarket ==
    pc = "call" /\ bt.phase = "loop" /\ bt.i <= Len(args.historical_markets)

\* the sizer gives no recommendation for the market the loop is at
NoRecommendation ==
    LET ai_prob == AiProbability(bt.has_strategy, LoopMarket)
    IN  /\ ai_prob.kind = "val"
        /\ calculate_optimal_bet(bt.initial_capital, ai_prob.val, LoopMarket.probability,
                                 LoopMarket.totalLiquidity, RunConfig.kelly_fraction,
                                 RunConfig.min_edge,
                                 RMul(bt.current_capital, Rat(1, 100)),
                                 RMul(bt.current_capital, Rat(1, 10))).kind = "None"

\* C15: a market that is not resolved, has no probability estimate, has no
\* recorded resolution outcome, or yields no Kelly recommendation adds no trade
\* to the results and leaves the running capital unchanged.
C15_SkippedMarketChangesNothing ==
    [][(/\ AtLoopMarket
        /\ \/ ~LoopMarket.isResolved
           \/ AiProbability(bt.has_strategy, LoopMarket).kind = "None"
           \/ LoopMarket.resolution = ""
           \/ NoRecommendation) =>
          /\ bt'.results = bt.results
          /\ bt'.current_capital = bt.current_capital]_vars

\* C15 witness: the loop has recorded a trade for the first market and has
\* passed over the second, which is unresolved, without an estimate, without
\* an outcome, or without an edge
C15_Witness_SkippedAfterTrade ==
    /\ pc = "call" /\ bt.phase = "loop" /\ bt.i = 3 /\ Len(bt.results) = 1
    /\ bt.results[1].market_id = args.historical_markets[1].id
    /\ args.historical_markets[2].id \in {"open", "no-outcome", "no-edge"}
    /\ bt.current_capital # bt.initial_capital
\* the pnl of a trade as C16 states it
StatedPnl(trade) ==
    LET directional == IF trade.direction = "YES" THEN trade.market_probability
                       ELSE RSub(One, trade.market_probability)
    IN  IF trade.outcome = trade.direction
        THEN RSub(RDiv(trade.amount, directional), trade.amount)
        ELSE RNeg(trade.amount)

\* C16: simulate_trade settles a recommended bet as follows: if the market's
\* resolution equals the recommended direction, pnl = amount / d - amount
\* where d is the market probability for YES and 1 - market probability for
\* NO; for every other resolution value pnl = -amount.
C16_SettlementOfRecordedTrades ==
    \A k \in 1..Len(bt.results) : bt.results[k].pnl = StatedPnl(bt.results[k])

\* C16 witness: a winning NO bet and a bet on a cancelled market are recorded
C16_Witness_NoWinnerAndCancelled ==
    /\ Len(bt.results) >= 2
    /\ \E k \in 1..Len(bt.results) :
         bt.results[k].direction = "NO" /\ bt.results[k].outcome = "NO"
    /\ \E k \in 1..Len(bt.results) : bt.results[k].outcome = "CANCEL"
\* C17: once the running capital is zero or below after a trade, no later
\* market of the list is simulated, and the trades recorded up to and
\* including that trade are kept and are the ones the returned metrics are
\* computed from.
C17_RunStopsWithoutCapital ==
    [][(TradeRecorded /\ RLe(bt'.current_capital, Zero)
          => bt'.phase = "break")
       /\ (pc = "call" /\ bt.phase \in {"loop", "break"}
             /\ Len(bt.results) > 0 /\ RLe(bt.current_capital, Zero)
          => LET metrics == IF op = "compare_strategies"
                            THEN bt'.comparison[Len(bt'.comparison)].metrics
                            ELSE ret'
             IN  /\ bt'.phase = "idle"
                 /\ op = "backtest_strategy" => pc' = "done"
                 /\ op = "compare_strategies" => Len(bt'.comparison) = Len(bt.comparison) + 1
                 /\ bt'.results = bt.results
                 /\ metrics.kind = "metrics"
                 /\ metrics.total_trades = Len(bt.results)
                 /\ metrics.total_pnl =
                      Round(CumulativePnl(bt.results, Len(bt.results)), 100))]_vars

\* C17 witness: a run has returned its metrics with a market of the list left
\* unvisited, the capital having gone to zero or below at a trade
C17_Witness_ReturnedBeforeEndOfList ==
    /\ pc = "done" /\ op = "backtest_strategy" /\ ret.kind = "metrics"
    /\ Len(bt.results) > 0 /\ RLe(bt.current_capital, Zero)
    /\ bt.i <= Len(args.historical_markets)

\* the run of backtest_strategy on an instance that has never run, from the
\* market at position k on, as a fold over the list: run carries the trades
\* recorded so far, the capital and whether the loop has been left
RECURSIVE TradesOfFreshRun(_, _, _, _, _, _)
TradesOfFreshRun(initial_capital, has_strategy, markets, config, k, run) ==
    IF k > Len(markets) \/ run.stopped THEN run.results
    ELSE LET trade_result == MarketResult(initial_capital, has_strategy, markets[k],
                                          config.kelly_fraction, config.min_edge,
                                          run.capital)
         IN  IF trade_result.kind = "trade"
             THEN TradesOfFreshRun(initial_capital, has_strategy, markets, config, k + 1,
                      [results |-> Append(run.results, trade_result),
                       capital |-> RAdd(run.capital, trade_result.pnl),
                       stopped |-> RLe(RAdd(run.capital, trade_result.pnl), Zero)])
             ELSE TradesOfFreshRun(initial_capital, has_strategy, markets, config, k + 1, run)

StandaloneTrades(config) ==
    TradesOfFreshRun(bt.initial_capital, bt.has_strategy, args.historical_markets, config, 1,
                     [results |-> <<>>, capital |-> bt.initial_capital, stopped |-> FALSE])

StandaloneMetrics(config) == calculate_metrics(StandaloneTrades(config), bt.initial_capital)

\* C18: whatever ran before on the instance, a returned backtest_strategy call
\* leaves the trade list and returns the metrics of a run of a fresh instance
\* with the same arguments, and compare_strategies returns one row per
\* configuration, in order, holding the metrics of a standalone run with that
\* configuration's kelly_fraction and min_edge, and the configuration's three
\* values
C18_RunsDependOnArgumentsOnly ==
    /\ (pc = "done" /\ op = "backtest_strategy" /\ ret.kind # "raise") =>
          /\ bt.results = StandaloneTrades(RunConfig)
          /\ ret = StandaloneMetrics(RunConfig)
    /\ (pc = "done" /\ op = "compare_strategies" /\ ret.kind # "raise") =>
          /\ ret.kind = "frame"
          /\ Len(ret.rows) = Len(args.strategy_configs)
          /\ \A c \in 1..Len(ret.rows) :
               /\ ret.rows[c].metrics = StandaloneMetrics(args.strategy_configs[c])
               /\ ret.rows[c].strategy_name = args.strategy_configs[c].name
               /\ ret.rows[c].kelly_fraction = args.strategy_configs[c].kelly_fraction
               /\ ret.rows[c].min_edge = args.strategy_configs[c].min_edge

\* C18 witness: compare_strategies has returned two rows whose runs, one
\* after the other on the same instance, both traded and ended with different
\* profits
C18_Witness_TwoRunsOnOneInstance ==
    /\ pc = "done" /\ op = "compare_strategies" /\ ret.kind = "frame"
    /\ Len(ret.rows) = 2
    /\ ret.rows[1].metrics.total_trades > 0
    /\ ret.rows[2].metrics.total_trades > 0
    /\ ret.rows[1].metrics.total_pnl # ret.rows[2].metrics.total_pnl
    /\ Len(bt.results) = ret.rows[2].metrics.total_trades

FindRelatedDone == pc = "done" /\ op = "find_related_markets"

Members(seq) == {seq[k] : k \in 1..Len(seq)}

\* two markets of the list, at different positions, whose questions are related
DirectlyRelated(markets, x, y) ==
    \E i, j \in 1..Len(markets) :
        /\ i # j /\ markets[i] = x /\ markets[j] = y
        /\ _are_markets_related(x.question, y.question)

RECURSIVE LinkedFrom(_, _)
\* the markets a chain of directly related pairs leads to from those of reached
LinkedFrom(markets, reached) ==
    LET more == {y \in Members(markets) : \E x \in reached : DirectlyRelated(markets, x, y)}
    IN  IF more \subseteq reached THEN reached ELSE LinkedFrom(markets, reached \cup more)

\* a chain of one or more directly related pairs links x to y
Linked(markets, x, y) ==
    y \in LinkedFrom(markets, {z \in Members(markets) : DirectlyRelated(markets, x, z)})

\* C19: the groups find_related_markets returns are pairwise disjoint, and
\* two markets of the list are in a same group exactly when a chain of
\* directly related pairs links them, whatever the order of the list.
C19_GroupsAreConnectedComponents ==
    FindRelatedDone =>
        /\ \A k1, k2 \in 1..Len(ret.groups) :
              k1 # k2 => Members(ret.groups[k1]) \cap Members(ret.groups[k2]) = {}
        /\ \A x, y \in Members(args.markets) :
              (\E k \in 1..Len(ret.groups) :
                  x \in Members(ret.groups[k]) /\ y \in Members(ret.groups[k]))
              <=> Linked(args.markets, x, y)

CrossDone == pc = "done" /\ op = "detect_cross_market_arbitrage"

\* |prob2 - (1 - prob1)| of the two markets of the call
CrossDiscrepancy ==
    RAbs(RSub(args.market2.probability, RSub(One, args.market1.probability)))

\* one of the two questions has "not" in it and the other has not
OneQuestionNegated ==
    ContainsNot(args.market1.question) # ContainsNot(args.market2.question)

\* C20: detect_cross_market_arbitrage returns an opportunity exactly when one
\* question contains the negation marker, the other does not, and
\* |prob2 - (1 - prob1)| is strictly greater than min_profit_threshold; the
\* potential_profit of the opportunity is that discrepancy; in every other
\* case the result is None.
C20_CrossOpportunityExactly ==
    CrossDone =>
        IF OneQuestionNegated /\ RLt(args.min_profit_threshold, CrossDiscrepancy)
        THEN /\ ret.kind = "opportunity"
             /\ ret.type = "inverse_market_arbitrage"
             /\ ret.potential_profit = CrossDiscrepancy
             /\ ret.discrepancy = CrossDiscrepancy
        ELSE ret = None

\* C20 witness: an opportunity is returned for a pair whose first question
\* alone is negated, with a profit above a quarter
C20_Witness_FirstQuestionNegated ==
    /\ CrossDone /\ ret.kind = "opportunity"
    /\ ContainsNot(args.market1.question) /\ ~ContainsNot(args.market2.question)
    /\ args.min_profit_threshold = Rat(1, 4)
    /\ RLt(Rat(1, 4), ret.potential_profit)

\* C21: for a binary opportunity with both probabilities positive and a
\* positive capital, the allocation pays out the same on both sides,
\* bet_yes / prob_yes = bet_no / prob_no, and the two bets add up to
\* total_capital.
C21_BothSidesPayTheSame ==
    (/\ AllocationDone /\ ret.kind = "allocation"
     /\ args.opportunity.type = "binary_arbitrage"
     /\ RLt(Zero, args.opportunity.prob_yes) /\ RLt(Zero, args.opportunity.prob_no)
     /\ RLt(Zero, args.total_capital))
    => /\ RDiv(ret.bet_yes, args.opportunity.prob_yes)
            = RDiv(ret.bet_no, args.opportunity.prob_no)
       /\ RAdd(ret.bet_yes, ret.bet_no) = args.total_capital

ContrarianDone == pc = "done" /\ op = "contrarian_estimate"

\* C22: above 0.8 contrarian_estimate returns the probability moved back
\* toward 0.8 by half of the excess, hence a value between 0.8 and the
\* probability; below 0.2 the probability moved up toward 0.2 by half of the
\* deficit, hence a value between the probability and 0.2; from 0.2 to 0.8 the
\* probability itself.
C22_ContrarianStaysOnItsSide ==
    ContrarianDone =>
        LET p == args.market.probability
        IN  IF RLt(Rat(4, 5), p)
            THEN /\ ret.val = RSub(p, RMul(RSub(p, Rat(4, 5)), Rat(1, 2)))
                 /\ RLe(Rat(4, 5), ret.val) /\ RLe(ret.val, p)
            ELSE IF RLt(p, Rat(1, 5))
            THEN /\ ret.val = RAdd(p, RMul(RSub(Rat(1, 5), p), Rat(1, 2)))
                 /\ RLe(p, ret.val) /\ RLe(ret.val, Rat(1, 5))
            ELSE ret.val = p

\* the return series of asset i in a 2-D array of returns: its column
SeriesOfAsset(returns, i) == [r \in 1..Len(returns) |-> returns[r][i]]

\* a series without spread: all its values are the same
ZeroSpread(series) == \A r \in 1..Len(series) : series[r] = series[1]

WeightedCorrelation(weights, correlation_matrix) ==
    LET n == Len(weights)
        corr(i, j) == IF Len(correlation_matrix) = n
                      THEN correlation_matrix[i][j] ELSE correlation_matrix[1][1]
    IN  SumTo([i \in 1..n |->
                 SumTo([j \in 1..n |-> RMul(RMul(weights[i], weights[j]), corr(i, j))], n)],
              n)

C24_CapitalStaysPositive ==
    (op = "backtest_strategy" /\ RLt(Zero, bt.initial_capital)
       /\ bt.phase \in {"loop", "break"})
    => /\ RLt(Zero, bt.current_capital)
       /\ bt.phase # "break"
       /\ \A k \in 1..Len(bt.results) :
             RLt(Zero, RAdd(bt.initial_capital, CumulativePnl(bt.results, k)))

\* C24 witness: a run from a small capital has lost three bets in a row, the
\* first stake having been rounded up to more than a tenth of the capital
C24_Witness_ThreeLossesFromSmallCapital ==
    /\ op = "backtest_strategy" /\ bt.phase = "loop"
    /\ bt.initial_capital = Rat(4, 25)
    /\ Len(bt.results) = 3
    /\ \A k \in 1..3 : RLt(bt.results[k].pnl, Zero)
    /\ RLt(RMul(bt.initial_capital, Rat(1, 10)), bt.results[1].amount)

\* the two markets of a cross-market opportunity, in either order
PairOf(opportunity) == {opportunity.market1_id, opportunity.market2_id}

\* C25: the list scan_for_arbitrage returns never holds two cross-market
\* opportunities for the same pair of markets.
C25_EachPairReportedOnce ==
    (pc = "done" /\ op = "scan_for_arbitrage") =>
        \A k1, k2 \in 1..Len(ret.items) :
            (/\ k1 # k2
             /\ ret.items[k1].type = "inverse_market_arbitrage"
             /\ ret.items[k2].type = "inverse_market_arbitrage")
            => PairOf(ret.items[k1]) # PairOf(ret.items[k2])

ScanDone == pc = "done" /\ op = "scan_for_arbitrage"

\* the markets at positions i and j share three significant keywords, one
\* question alone is negated, and the discrepancy is above the threshold
DirectInversePair(i, j) ==
    LET m1 == args.markets[i]
        m2 == args.markets[j]
    IN  /\ Cardinality((m1.question \cap m2.question) \ stop_words) >= 3
        /\ ContainsNot(m1.question) # ContainsNot(m2.question)
        /\ RLt(args.min_profit_threshold,
               RAbs(RSub(m2.probability, RSub(One, m1.probability))))

\* C26: every pair of markets of the scanned list that is directly related,
\* inverse and above the threshold has its cross-market opportunity in the
\* output, with its discrepancy, wherever the two stand in the list.
C26_DirectPairsAreReported ==
    ScanDone =>
        \A i, j \in 1..Len(args.markets) :
            (i < j /\ DirectInversePair(i, j)) =>
                \E k \in 1..Len(ret.items) :
                    /\ ret.items[k].type = "inverse_market_arbitrage"
                    /\ PairOf(ret.items[k]) = {args.markets[i].id, args.markets[j].id}
                    /\ ret.items[k].potential_profit =
                         RAbs(RSub(args.markets[j].probability,
                                   RSub(One, args.markets[i].probability)))

\* C26 witness: the scan reports a direct inverse pair whose markets stand in
\* two groups, the second group having been formed before the pair was linked
\* to the first
C26_Witness_PairInTwoGroups ==
    /\ ScanDone
    /\ Len(find_related_markets(args.markets)) = 2
    /\ \E i, j \in 1..Len(args.markets) :
         /\ i < j /\ DirectInversePair(i, j)
         /\ \A g \in 1..2 :
               /\ InSeq(args.markets[i], find_related_markets(args.markets)[g])
               /\ InSeq(args.markets[j], find_related_markets(args.markets)[g])

\* the call of calculate_kelly_fraction has probabilities strictly inside
\* (0, 1), a positive min_edge, an edge of at least min_edge on one side, and a
\* multiplier in (0, 1]
EdgeOnOneSide ==
    /\ pc = "done" /\ op = "calculate_kelly_fraction"
    /\ RLt(Zero, args.probability) /\ RLt(args.probability, One)
    /\ RLt(Zero, args.market_probability) /\ RLt(args.market_probability, One)
    /\ RLt(Zero, args.min_edge)
    /\ RLe(args.min_edge, RAbs(RSub(args.probability, args.market_probability)))
    /\ RLt(Zero, args.kelly_fraction) /\ RLe(args.kelly_fraction, One)

\* full Kelly of the side the edge is on: (p - m) / (1 - m) for YES and
\* (m - p) / m for NO
FullKelly ==
    IF RLt(args.market_probability, args.probability)
    THEN RDiv(RSub(args.probability, args.market_probability),
              RSub(One, args.market_probability))
    ELSE RDiv(RSub(args.market_probability, args.probability), args.market_probability)

RECURSIVE PeakFromStart(_, _)
\* the highest cumulative P&L up to trade k, the 0 before the first trade
\* included
PeakFromStart(results, k) ==
    IF k = 0 THEN Zero ELSE RMax(PeakFromStart(results, k - 1), CumulativePnl(results, k))

RECURSIVE LargestDrop(_, _)
\* the largest drop of the cumulative P&L below its highest earlier value,
\* over the first k trades
LargestDrop(results, k) ==
    IF k = 0 THEN Zero
    ELSE RMax(LargestDrop(results, k - 1),
              RSub(PeakFromStart(results, k), CumulativePnl(results, k)))

\* C29: the max_drawdown of the metrics is the largest drop of the running
\* capital below its highest earlier value, the initial capital being the
\* first peak; for a run whose trades all lose it is the total loss.
C29_DrawdownFromInitialCapital ==
    (BacktestDone /\ ret.kind = "metrics" /\ Len(bt.results) > 0) =>
        /\ ret.max_drawdown = Round(LargestDrop(bt.results, Len(bt.results)), 100)
        /\ (\A k \in 1..Len(bt.results) : RLt(bt.results[k].pnl, Zero))
             => ret.max_drawdown = RNeg(ret.total_pnl)

\* the fraction of the bankroll the sizer recommends for the market the loop
\* is at
LoopKellyFraction ==
    calculate_kelly_fraction(AiProbability(bt.has_strategy, LoopMarket).val,
                             LoopMarket.probability, RunConfig.kelly_fraction,
                             RunConfig.min_edge).val

\* the stake for the market the loop is at before it is clipped into the bet
\* bounds: the recommended fraction of the initial capital, held to a tenth
\* of the market's liquidity
StakeBeforeClipping ==
    adjust_for_market_impact(RMul(bt.initial_capital, LoopKellyFraction),
                             LoopMarket.totalLiquidity, Rat(1, 10))

\* C30 as stated: in backtest_strategy the stake of each trade before clipping
\* is the Kelly fraction times the fixed initial capital, so that the recorded
\* amount is that product clipped into 1% and 10% of the running capital
\* before the trade.
C30_StakeIsFractionOfInitialCapital ==
    [][TradeRecorded =>
          NewTrade.amount =
              Round(ClipBet(RMul(bt.initial_capital, LoopKellyFraction),
                            RMul(bt.current_capital, Rat(1, 100)),
                            RMul(bt.current_capital, Rat(1, 10))), 100)]_vars

\* C30 amended: the stake of each trade before clipping is the Kelly fraction
\* times the fixed initial capital, held to a tenth of the market's
\* liquidity; the running capital enters the recorded amount only as the clip
\* bounds, 1% and 10% of the running capital before the trade.
C30_StakeFromInitialCapital ==
    [][TradeRecorded =>
          NewTrade.amount =
              Round(ClipBet(StakeBeforeClipping,
                            RMul(bt.current_capital, Rat(1, 100)),
                            RMul(bt.current_capital, Rat(1, 10))), 100)]_vars

\* C30 witness: after a winning first trade the second stake, a quarter of
\* the full Kelly fraction 2/7 of the initial capital of 1000, is below a
\* tenth of the liquidity, lies strictly inside the bounds of the larger
\* running capital and is recorded as it is
C30_Witness_StakeInsideBoundsAfterWin ==
    /\ op = "backtest_strategy" /\ bt.phase = "loop"
    /\ bt.initial_capital = Num(1000)
    /\ ~bt.has_strategy /\ args.kelly_fraction = Rat(1, 4)
    /\ Len(bt.results) = 2
    /\ RLt(Zero, bt.results[1].pnl)
    /\ bt.results[2].amount = Round(RMul(bt.initial_capital, Rat(1, 14)), 100)
    /\ RLt(RMul(RAdd(bt.initial_capital, bt.results[1].pnl), Rat(1, 100)), bt.results[2].amount)
    /\ RLt(bt.results[2].amount, RMul(RAdd(bt.initial_capital, bt.results[1].pnl), Rat(1, 10)))

-----------------------------------------------------------------------------
(* Properties of PortfolioTracker, checked under SpecPortfolio. *)

\* C28: across every add_trade and update_trade_outcome call no recorded trade
\* is dropped; a closed trade keeps its status, outcome and pnl, also when the
\* call is an update for its own market; an open trade stays as it is or
\* becomes closed; and an update_trade_outcome call closes every open trade of
\* its market with the outcome and pnl it is given, and no other trade.
C28_ClosedTradesAreFinal ==
    [][/\ Len(tracker'.trades) >= Len(tracker.trades)
       /\ \A k \in 1..Len(tracker.trades) :
             LET before == tracker.trades[k]
                 after == tracker'.trades[k]
             IN  /\ before.status = "closed" => after = before
                 /\ before.status = "open" =>
                       \/ after = before
                       \/ after.status = "closed"
                 /\ (op' = "update_trade_outcome" /\ before.status = "open") =>
                       IF before.market_id = args'.market_id
                       THEN after = [before EXCEPT !.status = "closed",
                                                   !.outcome = Val(args'.outcome),
                                                   !.pnl = args'.pnl]
                       ELSE after = before]_vars

\* C28 witness: two trades of one market are closed with different outcomes,
\* the second having been opened and closed after the first was closed
C28_Witness_SameMarketClosedTwice ==
    /\ Len(tracker.trades) >= 2
    /\ tracker.trades[1].market_id = tracker.trades[2].market_id
    /\ tracker.trades[1].status = "closed" /\ tracker.trades[2].status = "closed"
    /\ tracker.trades[1].outcome # tracker.trades[2].outcome
    /\ tracker.trades[1].pnl # tracker.trades[2].pnl

=============================================================================
